---- MODULE Spec2Model ----
(***************************************************************************)
(* Browser audio relay of py-xiaozhi: the WebAudioPlugin                   *)
(* (src/src/plugins/web_audio.py) and the WebAudioBridge                   *)
(* (src/src/webapp/audio.py); with it, the ProcessController               *)
(* (src/src/webapp/controller.py) and the registry of the web display      *)
(* (src/src/webapp/state.py).                                              *)
(*                                                                         *)
(* The relay runs on one asyncio event loop: a task runs until it awaits   *)
(* something that is not ready.  The variable running names the task that  *)
(* is on the loop between two suspension points (NoTask when the loop is   *)
(* free to resume any ready task), so every action is the code between two *)
(* awaits and no other task interleaves inside it.                         *)
(*                                                                         *)
(* SpecMic        the plugin's microphone path (accumulator, forwarder).   *)
(* SpecSession    the browser sessions of the bridge.                      *)
(* SpecBroadcast  the sessions together with the broadcasts.               *)
(* SpecStatus     status queries while sessions come and go.               *)
(* SpecActivity   status queries against the clock of the activity flags.  *)
(* SpecTeardown   sessions that end while device states are broadcast,     *)
(*                under the fairness of the event loop.                    *)
(* SpecCodec      the microphone path while the application listens.       *)
(* SpecHandler    the handler slot of the bridge over the plugin's life.   *)
(* SpecFlags      the streaming flag of each session.                      *)
(* SpecSpeaker    inbound audio frames, decoded and broadcast.             *)
(* SpecFailure    broadcasts whose sends fail.                             *)
(* SpecOrder      three overlapping broadcast calls.                       *)
(* SpecConverge   state changes while sessions connect, no send failing.   *)
(* SpecLocks      every user of the locks, with a fair event loop and      *)
(*                sends that end.                                          *)
(* SpecStamps     the activity timestamps of the bridge.                   *)
(* SpecStop       the microphone path while the plugin shuts down.         *)
(* SpecController the process controller: start, stop and the monitors.    *)
(* SpecRegistry   the registry of the web display and its waiters.         *)
(***************************************************************************)
EXTENDS Integers, Sequences, FiniteSets, TLC

\* ------------------------------------------------------------------ bounds
\* AudioConfig.INPUT_FRAME_SIZE (samples per frame), scaled down.
INPUT_FRAME_SIZE == 1
\* Tasks that call the microphone handler (one per streaming session).
NumCallers == 2
\* Total number of microphone bytes handed to the accumulator.
MaxBytes == 5
\* Largest microphone chunk, in bytes.
MaxChunk == 5
\* Browser connections.
NumSessions == 2
\* Broadcast calls (device states and inbound audio frames).
NumBroadcasts == 3
\* Pings a session sends.
MaxPings == 1

\* The last second of the clock.
MaxTime == 4

\* get_status: the recency window of the activity flags, in seconds.
ActiveWindow == 2

\* Calls of ProcessController.start, and so children.
NumStarts == 3
\* Calls of ProcessController.stop.
NumStops == 2
\* Displays that register with the web UI registry.
NumDisplays == 2
\* Calls of wait_for_display.
NumWaiters == 2
\* Event objects the registry makes.
MaxEvents == 3

VARIABLES
    running,            \* the task on the event loop, or NoTask
    \* ---- WebAudioPlugin
    app,                \* self.app is set
    encoder,            \* self._encoder is not None
    decoder,            \* self._decoder is not None
    stopped,            \* shutdown() has run
    buffer,             \* self._buffer
    send_lock,          \* self._send_lock
    mpc,                \* position of each task inside _on_microphone_bytes
    cur,                \* the _forward_audio call each task made last
    \* ---- the application and the protocol, as the plugin reads them
    protocol,           \* app.protocol is not None
    chan,               \* what protocol.is_audio_channel_opened() does
    device_state,       \* app.device_state
    aborted,            \* app.aborted
    aec_enabled,        \* app.aec_enabled
    keep_listening,     \* app.keep_listening
    listening_mode,     \* app.listening_mode
    \* ---- the bridge's handler slot
    microphone_handler, \* WebAudioBridge._microphone_handler
    \* ---- WebAudioBridge
    clients,            \* self._clients: the sessions, in insertion order
    clients_lock,       \* self._clients_lock
    streaming,          \* _ClientState.streaming of each session
    lock,               \* _ClientState.lock of each session
    last_device_state,  \* self._last_device_state
    last_microphone_at, \* self._last_microphone_at (0: None)
    last_speaker_at,    \* self._last_speaker_at (0: None)
    now,                \* datetime.now(), in seconds
    spc,                \* position of each session's handle_client task
    slocal,             \* the payload a session task is sending
    npong,              \* number of pings a session has answered
    writing,            \* the tasks with a send in flight on each connection
    bpc,                \* position of each broadcast call
    bpayload,           \* the payload of each broadcast call
    bsnap,              \* the rest of the list a broadcast iterates
    gpc,                \* position of the get_status call
    status,             \* the status get_status builds and returns
    \* ---- history
    query,              \* what the get_status call read at line 167-173:
                        \* the clock and the two timestamps
    wire,               \* the messages delivered to each session, in order
    lastChunk,          \* the last binary message of each session: the
                        \* session's flag then, whether it was handed on,
                        \* and to which handler
    lastMic,            \* the active field of the last mic message of each
                        \* session ("none": no such message yet)
    endedBy,            \* what ended the receive loop of each session
    fresh,              \* no device state was published since the accept
    lastPublished,      \* the state of the last broadcast_device_state call
    bsnapAll,           \* the sessions each broadcast found registered
    battempts,          \* sends each broadcast started, per session
    bfailed,            \* the sessions on which a broadcast's send raised
    bresult,            \* how each broadcast call ended
    bdecode,            \* what the decoder did for each inbound frame
    received,           \* every byte handed to _on_microphone_bytes, in order
    owner,              \* the caller that handed in each of those bytes
    frames,             \* every frame sliced off the buffer, in order
    fwdCount,           \* number of _forward_audio calls
    upstream,           \* the frames given to protocol.send_audio, in order
    lastReturn,         \* the last return of _on_microphone_bytes: the
                        \* caller, the callers then inside the function, and
                        \* the length of the buffer
    \* ---- ProcessController (controller.py)
    process,            \* self._process: a child, or NoChild
    cstatus,            \* self._status: status, pid and exit_code
    stream_task,        \* self._stdout_task / self._stderr_task: the child
                        \* whose streams they read, or NoChild
    monitor_task,       \* self._monitor_task: the child it was made for
    ctl_lock,           \* self._lock
    ready,              \* the event loop's queue of the controller tasks
                        \* whose next step is due
    midstep,            \* the task at the head of the queue is inside a
                        \* step: its last await did not suspend
    child,              \* each child process: "unborn", "running", "exited"
    returncode,         \* process.returncode of each child (NoCode: not set)
    streams,            \* the stream readers of each child: "none", "open",
                        \* "done"
    startpc,            \* position of each start call
    stoppc,             \* position of each stop call
    monpc,              \* position of each child's _monitor_process task
    stoplocal,          \* the locals of each stop call: process, and the
                        \* monitor task it awaits
    monlocal,           \* the locals of each monitor: process, returncode,
                        \* and the stream task it awaits
    \* ---- history of the controller
    startres,           \* how each start call ended
    stopres,            \* how each stop call ended
    \* ---- _WebUIRegistry (state.py)
    display,            \* self._display: a display, or NoDisplay
    event,              \* self._event: the number of the current Event
    event_set,          \* the Event objects that are set
    set_soon,           \* the Event.set callbacks given to loop.call_soon
    wpc,                \* position of each wait_for_display call
    wlocal,             \* the Event each call waits for
    wresult,            \* what each call returned
    \* ---- history of the registry
    registered          \* the displays that were registered so far

\* the plugin's own fields
plugVars == <<app, encoder, decoder, stopped>>
\* the application's attributes
appVars == <<protocol, chan, device_state, aborted, aec_enabled,
             keep_listening, listening_mode>>
\* the microphone path
fwdVars == <<buffer, send_lock, mpc, cur>>
micHist == <<received, owner, frames, fwdCount, upstream, lastReturn>>
micVars == <<fwdVars, micHist>>

sessVars == <<clients, streaming, lastChunk, lastMic, lock, spc, slocal, npong, wire, writing,
              endedBy, fresh>>
regVars == <<last_device_state, last_microphone_at, last_speaker_at, now>>
bcVars == <<bpc, bpayload, bsnap, bsnapAll, battempts, bfailed, bresult,
            bdecode, lastPublished>>
stVars == <<gpc, status, query>>
bridgeVars == <<sessVars, clients_lock, regVars, bcVars, stVars>>

\* the audio relay
relayVars == <<running, microphone_handler, plugVars, appVars, micVars, bridgeVars>>

\* the process controller
ctlVars == <<process, cstatus, stream_task, monitor_task, ctl_lock, ready,
             midstep,
             child, returncode, streams, startpc, stoppc, monpc, stoplocal,
             monlocal, startres, stopres>>
\* the registry of the web display
uiVars == <<display, event, event_set, set_soon, wpc, wlocal, wresult,
            registered>>
\* the rest of the web application, which the relay does not touch
webVars == <<ctlVars, uiVars>>

vars == <<relayVars, webVars>>

\* ------------------------------------------------------------------ tasks
NoTask == <<"none", 0>>
Callers == 1..NumCallers
MicTask(c) == <<"mic", c>>

\* await lock.acquire() suspends the caller exactly when the lock is taken.
Yields(l) == l.holder # NoTask

\* ------------------------------------------------------------ asyncio.Lock
\* A lock is its holder and the FIFO queue of the tasks waiting for it.
\* acquire() of a free lock does not suspend; release() hands the lock to
\* the longest waiting task.
FreeLock == [holder |-> NoTask, waiters |-> <<>>]
Acquire(l, t) ==
    IF l.holder = NoTask
    THEN [l EXCEPT !.holder = t]
    ELSE [l EXCEPT !.waiters = Append(@, t)]
ReleaseToNewest(l) ==
    IF l.waiters = <<>>
    THEN [l EXCEPT !.holder = NoTask]
    ELSE [holder |-> l.waiters[Len(l.waiters)],
          waiters |-> SubSeq(l.waiters, 1, Len(l.waiters) - 1)]
Release(l) ==
    IF l.waiters = <<>>
    THEN [l EXCEPT !.holder = NoTask]
    ELSE [holder |-> Head(l.waiters), waiters |-> Tail(l.waiters)]

\* ------------------------------------------------------------- constants
DeviceStates == {"idle", "listening", "speaking"}
ListeningModes == {"realtime", "auto_stop"}
ChannelStates == {"open", "closed"}
EncodeResults == {"data", "empty", "raise"}

\* frame_bytes = AudioConfig.INPUT_FRAME_SIZE * 2
frame_bytes == INPUT_FRAME_SIZE * 2

\* The attributes _should_send_microphone_audio reads.
AppView == [ds |-> device_state, aborted |-> aborted, aec |-> aec_enabled,
            keep |-> keep_listening, mode |-> listening_mode]
NoGate == [ds |-> "none", aborted |-> FALSE, aec |-> FALSE,
           keep |-> FALSE, mode |-> "none"]

\* _should_send_microphone_audio without the echo-cancellation test.
should_send_ignoring_aec(v) ==
    IF ~app THEN FALSE
    ELSE IF v.ds = "listening" /\ ~v.aborted THEN TRUE
    ELSE /\ v.ds = "speaking"
         /\ v.keep
         /\ v.mode = "realtime"

\* _should_send_microphone_audio without the LISTENING branch.
should_send_speaking_only(v) ==
    IF ~app THEN FALSE
    ELSE /\ v.ds = "speaking"
         /\ v.aec
         /\ v.keep
         /\ v.mode = "realtime"

\* WebAudioPlugin._should_send_microphone_audio
should_send_microphone_audio(v) ==
    IF ~app THEN FALSE
    ELSE IF v.ds = "listening" /\ ~v.aborted THEN TRUE
    ELSE /\ v.ds = "speaking"
         /\ v.aec
         /\ v.keep
         /\ v.mode = "realtime"

NoForward == [frame |-> <<>>, chanAtEntry |-> "none", conn |-> 0,
              connFailed |-> FALSE, gate |-> NoGate,
              encWill |-> "none", enc |-> 0, snd |-> 0, done |-> FALSE]

\* ------------------------------------------------------------------ Init
\* The application when the plugin is set up: any configuration.
InitApp ==
    /\ protocol \in BOOLEAN
    /\ chan \in ChannelStates
    /\ device_state = "idle"
    /\ aborted = FALSE
    /\ aec_enabled \in BOOLEAN
    /\ keep_listening \in BOOLEAN
    /\ listening_mode \in ListeningModes

\* The application listening, its channel open.
InitAppListening ==
    /\ protocol = TRUE
    /\ chan = "open"
    /\ device_state = "listening"
    /\ aborted = FALSE
    /\ aec_enabled \in BOOLEAN
    /\ keep_listening \in BOOLEAN
    /\ listening_mode \in ListeningModes

\* One configuration of the application that listens, its channel open.
InitAppListeningDefault ==
    /\ protocol = TRUE
    /\ chan = "open"
    /\ device_state = "listening"
    /\ aborted = FALSE
    /\ aec_enabled = FALSE
    /\ keep_listening = FALSE
    /\ listening_mode = "auto_stop"

\* One configuration of the application, for the specifications that do not
\* read it.
InitAppDefault ==
    /\ protocol = TRUE
    /\ chan = "open"
    /\ device_state = "idle"
    /\ aborted = FALSE
    /\ aec_enabled = FALSE
    /\ keep_listening = FALSE
    /\ listening_mode = "auto_stop"

NoReturn == [by |-> 0, during |-> {}, len |-> 0]

InitMic ==
    /\ app = FALSE
    /\ encoder = FALSE
    /\ decoder = FALSE
    /\ stopped = FALSE
    /\ buffer = <<>>
    /\ send_lock = FreeLock
    /\ mpc = [c \in Callers |-> "idle"]
    /\ cur = [c \in Callers |-> NoForward]
    /\ received = <<>>
    /\ owner = <<>>
    /\ frames = <<>>
    /\ fwdCount = 0
    /\ upstream = <<>>
    /\ lastReturn = NoReturn

NoStatus == [returned |-> FALSE, connected |-> FALSE,
             microphoneStreaming |-> FALSE, microphoneActive |-> FALSE,
             speakerActive |-> FALSE, lastMicrophoneAt |-> 0,
             lastSpeakerAt |-> 0]
NoQuery == [at |-> 0, micAt |-> 0, spkAt |-> 0]

\* ------------------------------------------------------- WebAudioPlugin
\* A slot that keeps the handler it was given first.
first_installed_handler(old, h) == IF old = "none" THEN h ELSE old

\* set_microphone_handler, line 158 of audio.py: the slot after the call.
installed_handler(old, h) == h

\* setup(app): the codecs are created (or, when opuslib fails, left None)
\* and the plugin's handler is put in the bridge's slot.
setup(ok) ==
    /\ running = NoTask
    /\ ~app
    /\ app' = TRUE
    /\ encoder' = ok
    /\ decoder' = ok
    /\ microphone_handler' = installed_handler(microphone_handler, "plugin")
    /\ UNCHANGED <<running, stopped, appVars, fwdVars, micHist, bridgeVars>>
    /\ UNCHANGED webVars

\* shutdown: the bridge's slot is emptied, the buffer cleared and the codecs
\* dropped.
shutdown ==
    /\ running = NoTask
    /\ app
    /\ ~stopped
    /\ stopped' = TRUE
    /\ microphone_handler' = "none"
    /\ buffer' = <<>>
    /\ encoder' = FALSE
    /\ decoder' = FALSE
    /\ UNCHANGED <<running, app, appVars, send_lock, mpc, cur, micHist,
                   bridgeVars>>
    /\ UNCHANGED webVars

\* WebAudioBridge.set_microphone_handler, called with a handler that is not
\* the plugin's.
set_microphone_handler(h) ==
    /\ running = NoTask
    /\ microphone_handler # h
    /\ microphone_handler' = installed_handler(microphone_handler, h)
    /\ UNCHANGED <<running, plugVars, appVars, micVars, bridgeVars>>
    /\ UNCHANGED webVars

\* The application changes its state; the plugin only reads it.
AppSetDeviceState(st) ==
    /\ running = NoTask
    /\ st # device_state
    /\ device_state' = st
    /\ UNCHANGED <<running, microphone_handler, protocol, chan, aborted,
                   aec_enabled, keep_listening, listening_mode, plugVars,
                   fwdVars, micHist, bridgeVars>>
    /\ UNCHANGED webVars

AppSetAborted(b) ==
    /\ running = NoTask
    /\ b # aborted
    /\ aborted' = b
    /\ UNCHANGED <<running, microphone_handler, protocol, chan, device_state,
                   aec_enabled, keep_listening, listening_mode, plugVars,
                   fwdVars, micHist, bridgeVars>>
    /\ UNCHANGED webVars

\* The upstream audio channel closes (or starts failing its status query).
ChannelDrops(st) ==
    /\ running = NoTask
    /\ chan = "open"
    /\ st = "closed"
    /\ chan' = st
    /\ UNCHANGED <<running, microphone_handler, protocol, device_state,
                   aborted, aec_enabled, keep_listening, listening_mode,
                   plugVars, fwdVars, micHist, bridgeVars>>
    /\ UNCHANGED webVars

\* The n bytes of the next chunk: byte i of the stream is the number i.
NextChunk(n) == [i \in 1..n |-> Len(received) + i]

\* _on_microphone_bytes, lines 83-86: the chunk is appended to the buffer.
on_microphone_bytes(c, n) ==
    /\ running = NoTask
    /\ microphone_handler = "plugin"
    /\ mpc[c] = "idle"
    /\ Len(received) + n <= MaxBytes
    /\ IF n = 0
       THEN UNCHANGED <<running, buffer, mpc, received, owner>>
       ELSE /\ buffer' = buffer \o NextChunk(n)
            /\ received' = received \o NextChunk(n)
            /\ owner' = owner \o [i \in 1..n |-> c]
            /\ mpc' = [mpc EXCEPT ![c] = "loop"]
            /\ running' = MicTask(c)
    /\ UNCHANGED <<microphone_handler, send_lock, cur, frames, fwdCount,
                   upstream, lastReturn, plugVars, appVars, bridgeVars>>
    /\ UNCHANGED webVars

\* _on_microphone_bytes, line 88: a loop that stops one frame early.
has_two_frames(buf) == Len(buf) >= 2 * frame_bytes

\* _on_microphone_bytes, line 88: the loop condition, wrongly strict.
has_full_frame_strict(buf) == Len(buf) > frame_bytes

\* _on_microphone_bytes, line 88: the loop condition.
has_full_frame(buf) == Len(buf) >= frame_bytes

\* _on_microphone_bytes, lines 87-91: one turn of the slicing loop.
slice_frame(c) ==
    /\ running = MicTask(c)
    /\ mpc[c] = "loop"
    /\ IF has_full_frame(buffer)
       THEN /\ frames' = Append(frames, SubSeq(buffer, 1, frame_bytes))
            /\ buffer' = SubSeq(buffer, frame_bytes + 1, Len(buffer))
            /\ mpc' = [mpc EXCEPT ![c] = "forward"]
            /\ cur' = [cur EXCEPT ![c] =
                         [NoForward EXCEPT !.frame = SubSeq(buffer, 1, frame_bytes)]]
            /\ fwdCount' = fwdCount + 1
            /\ UNCHANGED <<running, lastReturn>>
       ELSE /\ mpc' = [mpc EXCEPT ![c] = "idle"]
            /\ cur' = [cur EXCEPT ![c] = NoForward]
            /\ lastReturn' = [by |-> c,
                              during |-> {x \in Callers \ {c} : mpc[x] # "idle"},
                              len |-> Len(buffer)]
            /\ running' = NoTask
            /\ UNCHANGED <<buffer, frames, fwdCount>>
    /\ UNCHANGED <<microphone_handler, send_lock, received, owner, upstream, plugVars,
                   appVars, bridgeVars>>
    /\ UNCHANGED webVars

\* _forward_audio, lines 94-100, with _ensure_connection, lines 116-123:
\* up to the reconnect attempt.  w is what encode() will return for this
\* frame if it is called.
forward_audio(c, w) ==
    /\ running = MicTask(c)
    /\ mpc[c] = "forward"
    /\ IF ~app \/ ~encoder \/ ~protocol
       THEN /\ mpc' = [mpc EXCEPT ![c] = "loop"]
            /\ cur' = [cur EXCEPT ![c].done = TRUE]
            /\ UNCHANGED running
       ELSE IF chan = "open"
       THEN /\ mpc' = [mpc EXCEPT ![c] = "gate"]
            /\ cur' = [cur EXCEPT ![c].chanAtEntry = chan, ![c].encWill = w]
            /\ UNCHANGED running
       ELSE /\ mpc' = [mpc EXCEPT ![c] = "connect"]
            /\ cur' = [cur EXCEPT ![c].chanAtEntry = chan, ![c].encWill = w,
                                  ![c].conn = @ + 1]
            /\ running' = NoTask
    /\ UNCHANGED <<microphone_handler, buffer, send_lock, plugVars, appVars,
                   micHist, bridgeVars>>
    /\ UNCHANGED webVars

\* _ensure_connection that reports success whatever the reconnect did.
connection_always_ensured(res) == TRUE

\* _ensure_connection, lines 122-125: what it returns after the reconnect
\* returned True or False or raised.
connection_ensured(res) == res = "true"

\* _ensure_connection, lines 122-125: app.connect_protocol() ends.
connect_protocol_done(c, res) ==
    /\ running = NoTask
    /\ mpc[c] = "connect"
    /\ running' = MicTask(c)
    /\ chan' = IF res = "true" THEN "open" ELSE chan
    /\ IF connection_ensured(res)
       THEN /\ mpc' = [mpc EXCEPT ![c] = "gate"]
            /\ cur' = [cur EXCEPT ![c].connFailed = (res # "true")]
       ELSE /\ mpc' = [mpc EXCEPT ![c] = "loop"]
            /\ cur' = [cur EXCEPT ![c].connFailed = TRUE, ![c].done = TRUE]
    /\ UNCHANGED <<microphone_handler, buffer, send_lock, protocol,
                   device_state, aborted, aec_enabled, keep_listening,
                   listening_mode, plugVars, micHist, bridgeVars>>
    /\ UNCHANGED webVars

\* A forwarder that sends whatever encode() returns.
encoded_unless_raised(w) == w # "raise"

\* _forward_audio, lines 103-109: encode() returned, and what it returned
\* is not empty.
encoded(w) == w = "data"

\* _forward_audio, lines 101-112: the gate, the encoder, the send lock.
encode_and_lock(c) ==
    /\ running = MicTask(c)
    /\ mpc[c] = "gate"
    /\ IF ~should_send_microphone_audio(AppView)
       THEN /\ mpc' = [mpc EXCEPT ![c] = "loop"]
            /\ cur' = [cur EXCEPT ![c].gate = AppView, ![c].done = TRUE]
            /\ UNCHANGED <<running, send_lock>>
       ELSE IF ~encoder \/ ~encoded(cur[c].encWill)
       THEN /\ mpc' = [mpc EXCEPT ![c] = "loop"]
            /\ cur' = [cur EXCEPT ![c].gate = AppView,
                                  ![c].enc = IF encoder THEN @ + 1 ELSE @,
                                  ![c].done = TRUE]
            /\ UNCHANGED <<running, send_lock>>
       ELSE /\ send_lock' = Acquire(send_lock, MicTask(c))
            /\ mpc' = [mpc EXCEPT ![c] = "send"]
            /\ cur' = [cur EXCEPT ![c].gate = AppView, ![c].enc = @ + 1]
            /\ running' = IF Yields(send_lock) THEN NoTask ELSE MicTask(c)
    /\ UNCHANGED <<microphone_handler, buffer, plugVars, appVars, micHist,
                   bridgeVars>>
    /\ UNCHANGED webVars

\* A send made without taking the send lock.
holds_no_send_lock(c) == TRUE

\* async with self._send_lock: the task goes on once the lock is its own.
holds_send_lock(c) == send_lock.holder = MicTask(c)

\* _forward_audio, lines 110-112: under the send lock,
\* protocol.send_audio(encoded) is called.
send_audio_begin(c) ==
    /\ mpc[c] = "send"
    /\ running \in {MicTask(c), NoTask}
    /\ holds_send_lock(c)
    /\ upstream' = Append(upstream, cur[c].frame)
    /\ cur' = [cur EXCEPT ![c].snd = @ + 1]
    /\ mpc' = [mpc EXCEPT ![c] = "sending"]
    /\ running' = NoTask
    /\ UNCHANGED <<microphone_handler, buffer, send_lock, received, owner,
                   frames, fwdCount, lastReturn, plugVars, appVars,
                   bridgeVars>>
    /\ UNCHANGED webVars

\* _forward_audio, lines 112-114: send_audio ends (ok or raising, which is
\* logged); the lock is released.
send_audio_done(c, ok) ==
    /\ running = NoTask
    /\ mpc[c] = "sending"
    /\ send_lock' = Release(send_lock)
    /\ cur' = [cur EXCEPT ![c].done = TRUE]
    /\ mpc' = [mpc EXCEPT ![c] = "loop"]
    /\ running' = MicTask(c)
    /\ UNCHANGED <<microphone_handler, buffer, plugVars, appVars, micHist,
                   bridgeVars>>
    /\ UNCHANGED webVars

NextMic ==
    \/ \E ok \in BOOLEAN : setup(ok)
    \/ \E st \in DeviceStates : AppSetDeviceState(st)
    \/ \E b \in BOOLEAN : AppSetAborted(b)
    \/ \E st \in ChannelStates : ChannelDrops(st)
    \/ \E c \in Callers, n \in 0..MaxChunk : on_microphone_bytes(c, n)
    \/ \E c \in Callers : slice_frame(c)
    \/ \E c \in Callers, w \in EncodeResults : forward_audio(c, w)
    \/ \E c \in Callers, res \in {"true", "false", "raise"} : connect_protocol_done(c, res)
    \/ \E c \in Callers : encode_and_lock(c)
    \/ \E c \in Callers : send_audio_begin(c)
    \/ \E c \in Callers, ok \in BOOLEAN : send_audio_done(c, ok)

\* The microphone path while the application listens and the channel stays
\* open: what becomes of a frame depends on the encoder and the send only.
NextCodec ==
    \/ \E ok \in {TRUE} : setup(ok)
    \/ \E c \in Callers, n \in 0..MaxChunk : on_microphone_bytes(c, n)
    \/ \E c \in Callers : slice_frame(c)
    \/ \E c \in Callers, w \in EncodeResults : forward_audio(c, w)
    \/ \E c \in Callers : encode_and_lock(c)
    \/ \E c \in Callers : send_audio_begin(c)
    \/ \E c \in Callers, ok \in BOOLEAN : send_audio_done(c, ok)

\* =============================================== WebAudioBridge (audio.py)
Sessions == 1..NumSessions
Broadcasts == 1..NumBroadcasts
\* The calls made in the runs in which sessions also ping and disconnect.
FirstCalls == {b \in Broadcasts : b < NumBroadcasts}
SessTask(s) == <<"sess", s>>
BTask(b) == <<"bc", b>>
StatusTask == <<"status", 1>>

\* An outbound message.  The config message's sample rates and frame sizes
\* are AudioConfig constants; only its deviceState varies.
Msg(type, val) == [type |-> type, val |-> val]
NoMsg == Msg("none", "")

\* A write made without taking the session's lock.
HoldsNoLock(t, s) == TRUE

\* Broadcasts that write without the session's lock.
HoldsWriteLockUnlessBroadcast(t, s) == lock[s].holder = t \/ t[1] = "bc"

\* async with state.lock: the task writes once the lock is its own.
HoldsWriteLock(t, s) == lock[s].holder = t

\* _send_config, lines 83-90, reporting a fixed state.
config_payload_idle == Msg("config", "idle")

\* _send_config, lines 83-90: the payload.
config_payload == Msg("config", last_device_state)

\* The textual payloads a browser may send.
Texts == {
    "",
    "{\"type\":\"mic\",\"active\":true}",
    "{\"type\":\"mic\",\"active\":false}",
    "{\"type\":\"mic\"}",
    "{\"type\":\"ping\"}",
    "{\"type\":\"notice\",\"message\":\"hi\"}",
    "{\"type\":\"zoom\"}",
    "{}",
    "not json",
    "42",
    "[]",
    "null" }

\* json.loads on those payloads: ok is FALSE for a JSONDecodeError; kind is
\* the Python type of the value; type and active are what payload.get gives
\* (None when the key is missing).
Parsed(ok, kind, type, active) ==
    [ok |-> ok, kind |-> kind, type |-> type, active |-> active]
json_loads(t) ==
    CASE t = "{\"type\":\"mic\",\"active\":true}" -> Parsed(TRUE, "dict", "mic", "True")
      [] t = "{\"type\":\"mic\",\"active\":false}" -> Parsed(TRUE, "dict", "mic", "False")
      [] t = "{\"type\":\"mic\"}" -> Parsed(TRUE, "dict", "mic", "None")
      [] t = "{\"type\":\"ping\"}" -> Parsed(TRUE, "dict", "ping", "None")
      [] t = "{\"type\":\"notice\",\"message\":\"hi\"}" -> Parsed(TRUE, "dict", "notice", "None")
      [] t = "{\"type\":\"zoom\"}" -> Parsed(TRUE, "dict", "zoom", "None")
      [] t = "{}" -> Parsed(TRUE, "dict", "None", "None")
      [] t = "42" -> Parsed(TRUE, "int", "None", "None")
      [] t = "[]" -> Parsed(TRUE, "list", "None", "None")
      [] t = "null" -> Parsed(TRUE, "NoneType", "None", "None")
      [] OTHER -> Parsed(FALSE, "none", "None", "None")

\* A flag that is set by every mic message that has an active field.
unless_missing(v) == v # "None"

\* bool(payload.get("active"))
bool(v) == v = "True"

\* _handle_text_message, lines 123-138: what the handler does with a text.
\* "raise" is the AttributeError of payload.get on a value that is no dict.
text_dispatch(t) ==
    LET payload == json_loads(t) IN
    IF ~payload.ok THEN "return"
    ELSE IF payload.kind # "dict" THEN "raise"
    ELSE IF payload.type = "mic" THEN "mic"
    ELSE IF payload.type = "ping" THEN "ping"
    ELSE IF payload.type = "notice" THEN "notice"
    ELSE "return"

\* _handle_microphone_frame testing whether any session streams.
accepts_frame_any_session(s, body) ==
    /\ body # ""
    /\ microphone_handler # "none"
    /\ \E x \in Sessions : streaming[x]

\* _handle_microphone_frame without the test of the handler slot.
accepts_frame_without_handler(s, body) ==
    /\ body # ""
    /\ streaming[s]

\* _handle_microphone_frame, lines 141-146: the three early returns.
accepts_microphone_frame(s, body) ==
    /\ body # ""
    /\ microphone_handler # "none"
    /\ streaming[s]


NoChunk == [seen |-> FALSE, streaming |-> FALSE, handed |-> FALSE,
            to |-> "none", empty |-> FALSE, slot |-> "none",
            outcome |-> "none"]

InitBridge ==
    /\ clients = <<>>
    /\ streaming = [s \in Sessions |-> FALSE]
    /\ lock = [s \in Sessions |-> FreeLock]
    /\ clients_lock = FreeLock
    /\ last_device_state = "idle"
    /\ last_microphone_at = 0
    /\ last_speaker_at = 0
    /\ now = 1
    /\ spc = [s \in Sessions |-> "new"]
    /\ slocal = [s \in Sessions |-> NoMsg]
    /\ npong = [s \in Sessions |-> 0]
    /\ wire = [s \in Sessions |-> <<>>]
    /\ writing = [s \in Sessions |-> {}]
    /\ endedBy = [s \in Sessions |-> "none"]
    /\ lastChunk = [s \in Sessions |-> NoChunk]
    /\ lastMic = [s \in Sessions |-> "none"]
    /\ fresh = [s \in Sessions |-> FALSE]
    /\ lastPublished = "idle"
    /\ bpc = [b \in Broadcasts |-> "new"]
    /\ bpayload = [b \in Broadcasts |-> NoMsg]
    /\ bsnap = [b \in Broadcasts |-> <<>>]
    /\ bsnapAll = [b \in Broadcasts |-> {}]
    /\ battempts = [b \in Broadcasts |-> [s \in Sessions |-> 0]]
    /\ bfailed = [b \in Broadcasts |-> {}]
    /\ bresult = [b \in Broadcasts |-> "none"]
    /\ bdecode = [b \in Broadcasts |-> "none"]
    /\ gpc = "idle"
    /\ status = NoStatus
    /\ query = NoQuery

\* A task resumes when the lock it waited for is its own.
Resumes(t, l) == l.holder = t /\ running \in {t, NoTask}

\* finally: await self._remove_client(websocket), up to the registry lock.
\* why is what ended the loop: "closed" (a disconnect, a transport error) or
\* "text" (an exception raised while a textual payload was handled).
BeginRemove(s, why) ==
    /\ endedBy' = [endedBy EXCEPT ![s] = why]
    /\ clients_lock' = Acquire(clients_lock, SessTask(s))
    /\ spc' = [spc EXCEPT ![s] = "remove"]
    /\ running' = IF Yields(clients_lock) THEN NoTask ELSE SessTask(s)

\* handle_client, lines 48-50: the connection is accepted, the session state
\* is created and the registry lock is requested.  Sessions are numbered in
\* the order in which they connect.
handle_client(s) ==
    /\ running = NoTask
    /\ spc[s] = "new"
    /\ \A x \in Sessions : x < s => spc[x] # "new"
    /\ clients_lock' = Acquire(clients_lock, SessTask(s))
    /\ spc' = [spc EXCEPT ![s] = "add"]
    /\ fresh' = [fresh EXCEPT ![s] = TRUE]
    /\ running' = IF Yields(clients_lock) THEN NoTask ELSE SessTask(s)
    /\ UNCHANGED <<clients, streaming, lastChunk, lastMic, lock, slocal, npong, wire, writing,
                   endedBy, regVars, bcVars, stVars, microphone_handler,
                   plugVars, appVars, micVars>>
    /\ UNCHANGED webVars

\* handle_client, lines 51-55, and _send_config, lines 83-91: the session is
\* registered, the registry lock released, the config payload built and the
\* session's lock requested.
register_client(s) ==
    /\ spc[s] = "add"
    /\ Resumes(SessTask(s), clients_lock)
    /\ clients' = Append(clients, s)
    /\ clients_lock' = Release(clients_lock)
    /\ slocal' = [slocal EXCEPT ![s] = config_payload]
    /\ lock' = [lock EXCEPT ![s] = Acquire(@, SessTask(s))]
    /\ spc' = [spc EXCEPT ![s] = "cfg"]
    /\ running' = IF Yields(lock[s]) THEN NoTask ELSE SessTask(s)
    /\ UNCHANGED <<streaming, lastChunk, lastMic, npong, wire, writing, endedBy, fresh,
                   regVars, bcVars, stVars, microphone_handler,
                   plugVars, appVars, micVars>>
    /\ UNCHANGED webVars

\* lines 92, 97, 135: under the session's lock, websocket.send_text starts.
session_send_begin(s) ==
    /\ spc[s] \in {"cfg", "ds", "pong"}
    /\ running \in {SessTask(s), NoTask}
    /\ HoldsWriteLock(SessTask(s), s)
    /\ writing' = [writing EXCEPT ![s] = @ \cup {SessTask(s)}]
    /\ spc' = [spc EXCEPT ![s] = CASE spc[s] = "cfg" -> "cfg_send"
                                   [] spc[s] = "ds" -> "ds_send"
                                   [] OTHER -> "pong_send"]
    /\ running' = NoTask
    /\ UNCHANGED <<clients, streaming, lastChunk, lastMic, lock, slocal, npong, wire, endedBy,
                   fresh, clients_lock, regVars, bcVars, stVars,
                   microphone_handler, plugVars, appVars, micVars>>
    /\ UNCHANGED webVars

\* A handshake that reports the state its config message reported.
config_device_state(s) == slocal[s].val

\* handle_client, line 56: the state is read when _send_config has returned.
connect_device_state(s) == last_device_state

\* _send_config whose error path goes to the removal inside the
\* session's lock.
config_sent_holding(s, ok) ==
    /\ running = NoTask
    /\ spc[s] = "cfg_send"
    /\ writing' = [writing EXCEPT ![s] = @ \ {SessTask(s)}]
    /\ IF ok
       THEN /\ wire' = [wire EXCEPT ![s] = Append(@, slocal[s])]
            /\ slocal' = [slocal EXCEPT ![s] = Msg("device_state", connect_device_state(s))]
            /\ lock' = [lock EXCEPT ![s] = Acquire(Release(@), SessTask(s))]
            /\ spc' = [spc EXCEPT ![s] = "ds"]
            /\ running' = IF Yields(Release(lock[s])) THEN NoTask ELSE SessTask(s)
            /\ UNCHANGED <<clients_lock, endedBy>>
       ELSE /\ BeginRemove(s, "closed")
            /\ UNCHANGED <<wire, slocal, lock>>
    /\ UNCHANGED <<clients, streaming, lastChunk, lastMic, npong, fresh, regVars, bcVars,
                   stVars, microphone_handler, plugVars, appVars, micVars>>
    /\ UNCHANGED webVars

\* _send_config, line 92, ends; then handle_client, line 56, and
\* _send_device_state, lines 95-96 (or, on an error, lines 71-74).
config_sent(s, ok) ==
    /\ running = NoTask
    /\ spc[s] = "cfg_send"
    /\ writing' = [writing EXCEPT ![s] = @ \ {SessTask(s)}]
    /\ IF ok
       THEN /\ wire' = [wire EXCEPT ![s] = Append(@, slocal[s])]
            /\ slocal' = [slocal EXCEPT ![s] = Msg("device_state", connect_device_state(s))]
            /\ lock' = [lock EXCEPT ![s] = Acquire(Release(@), SessTask(s))]
            /\ spc' = [spc EXCEPT ![s] = "ds"]
            /\ running' = IF Yields(Release(lock[s])) THEN NoTask ELSE SessTask(s)
            /\ UNCHANGED <<clients_lock, endedBy>>
       ELSE /\ lock' = [lock EXCEPT ![s] = Release(@)]
            /\ BeginRemove(s, "closed")
            /\ UNCHANGED <<wire, slocal>>
    /\ UNCHANGED <<clients, streaming, lastChunk, lastMic, npong, fresh, regVars, bcVars,
                   stVars, microphone_handler, plugVars, appVars, micVars>>
    /\ UNCHANGED webVars

\* _send_device_state, line 97, ends; the receive loop starts (line 59).
device_state_sent(s, ok) ==
    /\ running = NoTask
    /\ spc[s] = "ds_send"
    /\ writing' = [writing EXCEPT ![s] = @ \ {SessTask(s)}]
    /\ lock' = [lock EXCEPT ![s] = Release(@)]
    /\ IF ok
       THEN /\ wire' = [wire EXCEPT ![s] = Append(@, slocal[s])]
            /\ spc' = [spc EXCEPT ![s] = "recv"]
            /\ UNCHANGED <<running, clients_lock, endedBy>>
       ELSE /\ BeginRemove(s, "closed")
            /\ UNCHANGED wire
    /\ UNCHANGED <<clients, streaming, lastChunk, lastMic, slocal, npong, fresh, regVars,
                   bcVars, stVars, microphone_handler, plugVars, appVars,
                   micVars>>
    /\ UNCHANGED webVars

\* handle_client, lines 59-62 and 71-74: websocket.receive() gives a
\* disconnect message, or raises.
recv_disconnect(s, how) ==
    /\ running = NoTask
    /\ spc[s] = "recv"
    /\ BeginRemove(s, "closed")
    /\ UNCHANGED <<clients, streaming, lastChunk, lastMic, lock, slocal, npong, wire, writing,
                   fresh, regVars, bcVars, stVars, microphone_handler,
                   plugVars, appVars, micVars>>
    /\ UNCHANGED webVars

\* handle_client, lines 64-66, and _handle_microphone_frame, lines 141-150:
\* a binary message; body is "" for an empty payload.
recv_bytes(s, body) ==
    /\ running = NoTask
    /\ spc[s] = "recv"
    /\ IF accepts_microphone_frame(s, body)
       THEN /\ last_microphone_at' = now
            /\ spc' = [spc EXCEPT ![s] = "mic"]
       ELSE UNCHANGED <<last_microphone_at, spc>>
    /\ lastChunk' = [lastChunk EXCEPT ![s] =
                        [seen |-> TRUE, streaming |-> streaming[s],
                         handed |-> accepts_microphone_frame(s, body),
                         to |-> IF accepts_microphone_frame(s, body)
                                THEN microphone_handler ELSE "none",
                         empty |-> body = "",
                         slot |-> microphone_handler,
                         outcome |-> "none"]]
    /\ UNCHANGED <<running, clients, streaming, lastMic, lock, slocal, npong, wire,
                   writing, endedBy, fresh, clients_lock, last_device_state,
                   last_speaker_at, now, bcVars, stVars, microphone_handler,
                   plugVars, appVars, micVars>>
    /\ UNCHANGED webVars

\* _handle_microphone_frame without its try: the handler's exception
\* reaches handle_client, lines 71-74.
microphone_handler_done_unguarded(s, raised) ==
    /\ running = NoTask
    /\ spc[s] = "mic"
    /\ lastChunk' = [lastChunk EXCEPT ![s].outcome =
                        IF raised THEN "raised" ELSE "returned"]
    /\ IF raised
       THEN BeginRemove(s, "closed")
       ELSE /\ spc' = [spc EXCEPT ![s] = "recv"]
            /\ UNCHANGED <<running, endedBy, clients_lock>>
    /\ UNCHANGED <<clients, streaming, lastMic, lock, slocal, npong, wire,
                   writing, fresh, regVars, bcVars,
                   stVars, microphone_handler, plugVars, appVars, micVars>>
    /\ UNCHANGED webVars

\* _handle_microphone_frame, lines 150-152: the handler returns or raises;
\* the exception is logged and the loop goes on.
microphone_handler_done(s, raised) ==
    /\ running = NoTask
    /\ spc[s] = "mic"
    /\ spc' = [spc EXCEPT ![s] = "recv"]
    /\ lastChunk' = [lastChunk EXCEPT ![s].outcome =
                        IF raised THEN "raised" ELSE "returned"]
    /\ UNCHANGED <<running, clients, streaming, lastMic, lock, slocal, npong, wire,
                   writing, endedBy, fresh, clients_lock, regVars, bcVars,
                   stVars, microphone_handler, plugVars, appVars, micVars>>
    /\ UNCHANGED webVars

\* handle_client, lines 68-70, and _handle_text_message, lines 123-138.
recv_text(s, t) ==
    /\ running = NoTask
    /\ spc[s] = "recv"
    /\ IF t = "" \/ text_dispatch(t) \in {"return", "notice"}
       THEN UNCHANGED <<running, streaming, lastChunk, lastMic, lock, slocal, spc, npong,
                        clients_lock, endedBy>>
       ELSE IF text_dispatch(t) = "mic"
       THEN /\ streaming' = [streaming EXCEPT ![s] = bool(json_loads(t).active)]
            /\ lastMic' = [lastMic EXCEPT ![s] = json_loads(t).active]
            /\ UNCHANGED <<running, lock, slocal, spc, npong, clients_lock,
                           endedBy, lastChunk>>
       ELSE IF text_dispatch(t) = "ping"
       THEN /\ npong[s] < MaxPings
            /\ npong' = [npong EXCEPT ![s] = @ + 1]
            /\ lock' = [lock EXCEPT ![s] = Acquire(@, SessTask(s))]
            /\ slocal' = [slocal EXCEPT ![s] = Msg("pong", "")]
            /\ spc' = [spc EXCEPT ![s] = "pong"]
            /\ running' = IF Yields(lock[s]) THEN NoTask ELSE SessTask(s)
            /\ UNCHANGED <<streaming, lastChunk, lastMic, clients_lock, endedBy>>
       ELSE /\ BeginRemove(s, "text")
            /\ UNCHANGED <<streaming, lastChunk, lastMic, lock, slocal, npong>>
    /\ UNCHANGED <<clients, wire, writing, fresh, regVars, bcVars, stVars,
                   microphone_handler, plugVars, appVars, micVars>>
    /\ UNCHANGED webVars

\* The connection of the session registered first.
first_websocket(s) == 1

\* _handle_text_message, line 135: state.websocket, the connection of the
\* session that received the ping.
pong_websocket(s) == s

\* _handle_text_message, line 135, ends: back to the loop, or lines 71-74.
pong_sent(s, ok) ==
    /\ running = NoTask
    /\ spc[s] = "pong_send"
    /\ writing' = [writing EXCEPT ![s] = @ \ {SessTask(s)}]
    /\ lock' = [lock EXCEPT ![s] = Release(@)]
    /\ IF ok
       THEN /\ wire' = [wire EXCEPT ![pong_websocket(s)] =
                                Append(@, slocal[s])]
            /\ spc' = [spc EXCEPT ![s] = "recv"]
            /\ UNCHANGED <<running, clients_lock, endedBy>>
       ELSE /\ BeginRemove(s, "closed")
            /\ UNCHANGED wire
    /\ UNCHANGED <<clients, streaming, lastChunk, lastMic, slocal, npong, fresh, regVars,
                   bcVars, stVars, microphone_handler, plugVars, appVars,
                   micVars>>
    /\ UNCHANGED webVars

\* A removal that empties the registry.
without_any_client(cl, s) == <<>>

\* _remove_client, lines 79-80: the entry of the session is deleted if it
\* is there.
without_client(cl, s) == SelectSeq(cl, LAMBDA x : x # s)

\* _remove_client, lines 78-80, and the end of handle_client: the task and
\* its locals are gone, and nothing more is delivered on the connection.
remove_client(s) ==
    /\ spc[s] = "remove"
    /\ Resumes(SessTask(s), clients_lock)
    /\ clients' = without_client(clients, s)
    /\ clients_lock' = Release(clients_lock)
    /\ spc' = [spc EXCEPT ![s] = "done"]
    /\ slocal' = [slocal EXCEPT ![s] = NoMsg]
    /\ fresh' = [fresh EXCEPT ![s] = FALSE]
    /\ wire' = [wire EXCEPT ![s] = <<>>]
    /\ npong' = [npong EXCEPT ![s] = 0]
    /\ running' = NoTask
    /\ UNCHANGED <<streaming, lastChunk, lastMic, lock, writing, endedBy,
                   regVars, bcVars, stVars, microphone_handler, plugVars,
                   appVars, micVars>>
    /\ UNCHANGED webVars

\* The states the application publishes in these runs.
PublishedStates == {"idle", "speaking"}

\* Broadcast calls are numbered in the order in which they are made.
IsNextCall(b) ==
    /\ bpc[b] = "new"
    /\ \A x \in Broadcasts : x < b => bpc[x] # "new"

\* A publisher that keeps the first state that is not idle.
first_device_state(st) ==
    IF last_device_state = "idle" THEN st ELSE last_device_state

\* broadcast_device_state, line 100: the state the call records.
recorded_device_state(st) == st

\* on_device_state_changed, lines 74-78, notify_device_state, line 164, and
\* broadcast_device_state, lines 100-102: the state is recorded, the payload
\* built and the registry lock requested.
broadcast_device_state(b, st) ==
    /\ running = NoTask
    /\ IsNextCall(b)
    /\ last_device_state' = recorded_device_state(st)
    /\ lastPublished' = st
    /\ fresh' = [s \in Sessions |-> FALSE]
    /\ bpayload' = [bpayload EXCEPT ![b] = Msg("device_state", st)]
    /\ clients_lock' = Acquire(clients_lock, BTask(b))
    /\ bpc' = [bpc EXCEPT ![b] = "lock"]
    /\ running' = IF Yields(clients_lock) THEN NoTask ELSE BTask(b)
    /\ UNCHANGED <<clients, streaming, lastChunk, lastMic, lock, spc, slocal, npong, wire, writing,
                   endedBy, last_microphone_at, last_speaker_at, now, bsnap,
                   bsnapAll, battempts, bfailed, bresult, bdecode, stVars,
                   microphone_handler, plugVars, appVars, micVars>>
    /\ UNCHANGED webVars

\* on_incoming_audio whose decode error escapes the call.
decode_error_raises == "raised"

\* on_incoming_audio, lines 71-72: a decode error is logged and dropped.
decode_error_result == "returned"

\* A broadcast that carries the same PCM whatever was decoded.
speaker_payload_fixed(d) == Msg("pcm", "pcm")

\* on_incoming_audio, lines 68-70: the decoded PCM is passed on whole.
speaker_payload(d) == Msg("pcm", d)

\* The PCM a decoder may return.
DecodedPcm == {"pcm", "pcm2"}

\* on_incoming_audio, lines 63-72, and broadcast_speaker_audio, lines
\* 111-114.  d is what the decoder does with the frame: "nodata" for an
\* empty frame, "raise", "empty", or the PCM it returns.
on_incoming_audio(b, d) ==
    /\ running = NoTask
    /\ IsNextCall(b)
    /\ IF d = "nodata" \/ ~decoder
       THEN /\ bpc' = [bpc EXCEPT ![b] = "done"]
            /\ bresult' = [bresult EXCEPT ![b] = "returned"]
            /\ UNCHANGED <<running, bdecode, bpayload, last_speaker_at,
                           clients_lock>>
       ELSE IF d = "raise"
       THEN /\ bpc' = [bpc EXCEPT ![b] = "done"]
            /\ bdecode' = [bdecode EXCEPT ![b] = d]
            /\ bresult' = [bresult EXCEPT ![b] = decode_error_result]
            /\ UNCHANGED <<running, bpayload, last_speaker_at, clients_lock>>
       ELSE IF d = "empty"
       THEN /\ bpc' = [bpc EXCEPT ![b] = "done"]
            /\ bdecode' = [bdecode EXCEPT ![b] = d]
            /\ bresult' = [bresult EXCEPT ![b] = "returned"]
            /\ UNCHANGED <<running, bpayload, last_speaker_at, clients_lock>>
       ELSE /\ bdecode' = [bdecode EXCEPT ![b] = d]
            /\ last_speaker_at' = now
            /\ bpayload' = [bpayload EXCEPT ![b] = speaker_payload(d)]
            /\ clients_lock' = Acquire(clients_lock, BTask(b))
            /\ bpc' = [bpc EXCEPT ![b] = "lock"]
            /\ running' = IF Yields(clients_lock) THEN NoTask ELSE BTask(b)
            /\ UNCHANGED bresult
    /\ UNCHANGED <<clients, streaming, lastChunk, lastMic, lock, spc, slocal, npong, wire, writing,
                   endedBy, fresh, last_device_state, last_microphone_at, now,
                   bsnap, bsnapAll, battempts, bfailed, lastPublished, stVars,
                   microphone_handler, plugVars, appVars, micVars>>
    /\ UNCHANGED webVars

\* A list that holds only the session registered last.
snapshot_newest_only(cl) == IF cl = <<>> THEN <<>> ELSE <<cl[Len(cl)]>>

\* lines 103 and 115: list(self._clients.values()), in insertion order.
snapshot(cl) == cl

\* lines 102-103 and 114-115: with the registry lock held, the sessions
\* are copied into a list.
take_snapshot(b) ==
    /\ bpc[b] = "lock"
    /\ Resumes(BTask(b), clients_lock)
    /\ bsnap' = [bsnap EXCEPT ![b] = snapshot(clients)]
    /\ bsnapAll' = [bsnapAll EXCEPT ![b] = {clients[i] : i \in DOMAIN clients}]
    /\ bpc' = [bpc EXCEPT ![b] = "iter"]
    /\ running' = BTask(b)
    /\ UNCHANGED <<clients, streaming, lastChunk, lastMic, lock, spc, slocal, npong, wire, writing,
                   endedBy, fresh, clients_lock, regVars, bpayload, battempts,
                   bfailed, bresult, bdecode, lastPublished, stVars,
                   microphone_handler, plugVars, appVars, micVars>>
    /\ UNCHANGED webVars

\* lines 103-105 and 115-117: the next session of the list, or the end of
\* the call.
fan_out_next(b) ==
    /\ bpc[b] = "iter"
    /\ running = BTask(b)
    /\ IF bsnap[b] = <<>>
       THEN /\ clients_lock' = Release(clients_lock)
            /\ bpc' = [bpc EXCEPT ![b] = "done"]
            /\ bresult' = [bresult EXCEPT ![b] = "returned"]
            /\ bpayload' = [bpayload EXCEPT ![b] = NoMsg]
            /\ bsnapAll' = [bsnapAll EXCEPT ![b] = {}]
            /\ battempts' = [battempts EXCEPT ![b] = [s \in Sessions |-> 0]]
            /\ bfailed' = [bfailed EXCEPT ![b] = {}]
            /\ running' = NoTask
            /\ UNCHANGED lock
       ELSE /\ lock' = [lock EXCEPT ![Head(bsnap[b])] = Acquire(@, BTask(b))]
            /\ bpc' = [bpc EXCEPT ![b] = "slock"]
            /\ running' = IF Yields(lock[Head(bsnap[b])]) THEN NoTask ELSE BTask(b)
            /\ UNCHANGED <<clients_lock, bresult, bpayload, bsnapAll,
                           battempts, bfailed>>
    /\ UNCHANGED <<clients, streaming, lastChunk, lastMic, spc, slocal, npong, wire, writing,
                   endedBy, fresh, regVars, bsnap, bdecode, lastPublished,
                   stVars,
                   microphone_handler, plugVars, appVars, micVars>>
    /\ UNCHANGED webVars

\* lines 106 and 118: under the session's lock, the send starts.
broadcast_send_begin(b) ==
    /\ bpc[b] = "slock"
    /\ running \in {BTask(b), NoTask}
    /\ HoldsWriteLock(BTask(b), Head(bsnap[b]))
    /\ writing' = [writing EXCEPT ![Head(bsnap[b])] = @ \cup {BTask(b)}]
    /\ battempts' = [battempts EXCEPT ![b][Head(bsnap[b])] = @ + 1]
    /\ bpc' = [bpc EXCEPT ![b] = "send"]
    /\ running' = NoTask
    /\ UNCHANGED <<clients, streaming, lastChunk, lastMic, lock, spc, slocal, npong, wire, endedBy,
                   fresh, clients_lock, regVars, bpayload, bsnap, bsnapAll,
                   bfailed, bresult, bdecode, lastPublished, stVars,
                   microphone_handler, plugVars, appVars, micVars>>
    /\ UNCHANGED webVars

\* A fan-out in which a failed send ends the call with the error.
broadcast_send_done_unguarded(b, ok) ==
    /\ running = NoTask
    /\ bpc[b] = "send"
    /\ writing' = [writing EXCEPT ![Head(bsnap[b])] = @ \ {BTask(b)}]
    /\ lock' = [lock EXCEPT ![Head(bsnap[b])] = Release(@)]
    /\ IF ok
       THEN /\ wire' = [wire EXCEPT ![Head(bsnap[b])] = Append(@, bpayload[b])]
            /\ bsnap' = [bsnap EXCEPT ![b] = Tail(@)]
            /\ bpc' = [bpc EXCEPT ![b] = "iter"]
            /\ running' = BTask(b)
            /\ UNCHANGED <<bfailed, bresult, clients_lock>>
       ELSE /\ bfailed' = [bfailed EXCEPT ![b] = @ \cup {Head(bsnap[b])}]
            /\ clients_lock' = Release(clients_lock)
            /\ bpc' = [bpc EXCEPT ![b] = "done"]
            /\ bresult' = [bresult EXCEPT ![b] = "raised"]
            /\ UNCHANGED <<wire, bsnap, running>>
    /\ UNCHANGED <<clients, streaming, lastChunk, lastMic, spc, slocal, npong, endedBy, fresh,
                   regVars, bpayload, bsnapAll, battempts, bdecode,
                   lastPublished, stVars, microphone_handler, plugVars,
                   appVars, micVars>>
    /\ UNCHANGED webVars

\* A fan-out that takes a session whose send failed out of the registry.
broadcast_send_done_evicting(b, ok) ==
    /\ running = NoTask
    /\ bpc[b] = "send"
    /\ writing' = [writing EXCEPT ![Head(bsnap[b])] = @ \ {BTask(b)}]
    /\ lock' = [lock EXCEPT ![Head(bsnap[b])] = Release(@)]
    /\ IF ok
       THEN /\ wire' = [wire EXCEPT ![Head(bsnap[b])] = Append(@, bpayload[b])]
            /\ UNCHANGED bfailed
       ELSE /\ bfailed' = [bfailed EXCEPT ![b] = @ \cup {Head(bsnap[b])}]
            /\ UNCHANGED wire
    /\ bsnap' = [bsnap EXCEPT ![b] = Tail(@)]
    /\ bpc' = [bpc EXCEPT ![b] = "iter"]
    /\ running' = BTask(b)
    /\ clients' = IF ok THEN clients
                  ELSE SelectSeq(clients, LAMBDA x : x # Head(bsnap[b]))
    /\ UNCHANGED <<streaming, lastChunk, lastMic, spc, slocal, npong, endedBy, fresh,
                   clients_lock, regVars, bpayload, bsnapAll, battempts,
                   bresult, bdecode, lastPublished, stVars,
                   microphone_handler, plugVars, appVars, micVars>>
    /\ UNCHANGED webVars

\* lines 104-108 and 116-120: the send ends; an error is logged and the
\* loop goes on with the next session.
broadcast_send_done(b, ok) ==
    /\ running = NoTask
    /\ bpc[b] = "send"
    /\ writing' = [writing EXCEPT ![Head(bsnap[b])] = @ \ {BTask(b)}]
    /\ lock' = [lock EXCEPT ![Head(bsnap[b])] = Release(@)]
    /\ IF ok
       THEN /\ wire' = [wire EXCEPT ![Head(bsnap[b])] = Append(@, bpayload[b])]
            /\ UNCHANGED bfailed
       ELSE /\ bfailed' = [bfailed EXCEPT ![b] = @ \cup {Head(bsnap[b])}]
            /\ UNCHANGED wire
    /\ bsnap' = [bsnap EXCEPT ![b] = Tail(@)]
    /\ bpc' = [bpc EXCEPT ![b] = "iter"]
    /\ running' = BTask(b)
    /\ UNCHANGED <<clients, streaming, lastChunk, lastMic, spc, slocal, npong, endedBy, fresh,
                   clients_lock, regVars, bpayload, bsnapAll, battempts,
                   bresult, bdecode, lastPublished, stVars,
                   microphone_handler, plugVars, appVars, micVars>>
    /\ UNCHANGED webVars

\* get_status with a window that includes its end.
within_window_inclusive(t, last) == last # 0 /\ t - last <= ActiveWindow

\* get_status, lines 168-173: the timestamp is set and less than the window
\* before t.
within_window(t, last) == last # 0 /\ t - last < ActiveWindow

\* get_status looking at every session ever seen.
any_streaming_anywhere(snap) == \E s \in Sessions : streaming[s]

\* get_status, line 177: any(state.streaming for state in clients_snapshot)
any_streaming(snap) == \E i \in DOMAIN snap : streaming[snap[i]]

\* get_status, lines 167-174: the clock is read, the two activity flags are
\* computed and the registry lock requested.
get_status(g) ==
    /\ running = NoTask
    /\ gpc = "idle"
    /\ status' = [NoStatus EXCEPT
                    !.microphoneActive = within_window(now, last_microphone_at),
                    !.speakerActive = within_window(now, last_speaker_at)]
    /\ query' = [at |-> now, micAt |-> last_microphone_at,
                 spkAt |-> last_speaker_at]
    /\ clients_lock' = Acquire(clients_lock, StatusTask)
    /\ gpc' = "lock"
    /\ running' = IF Yields(clients_lock) THEN NoTask ELSE StatusTask
    /\ UNCHANGED <<sessVars, regVars, bcVars, microphone_handler, plugVars,
                   appVars, micVars>>
    /\ UNCHANGED webVars

\* get_status, lines 175-199: the snapshot and the returned status.
status_returned(g) ==
    /\ gpc = "lock"
    /\ Resumes(StatusTask, clients_lock)
    /\ clients_lock' = Release(clients_lock)
    /\ status' = [status EXCEPT
                    !.returned = TRUE,
                    !.connected = snapshot(clients) # <<>>,
                    !.microphoneStreaming = any_streaming(snapshot(clients)),
                    !.lastMicrophoneAt = last_microphone_at,
                    !.lastSpeakerAt = last_speaker_at]
    /\ gpc' = "returned"
    /\ running' = NoTask
    /\ UNCHANGED <<query, sessVars, regVars, bcVars, microphone_handler,
                   plugVars, appVars, micVars>>
    /\ UNCHANGED webVars

\* The caller has read the status.
status_read(g) ==
    /\ running = NoTask
    /\ gpc = "returned"
    /\ gpc' = "idle"
    /\ status' = NoStatus
    /\ query' = NoQuery
    /\ UNCHANGED <<running, sessVars, clients_lock, regVars, bcVars,
                   microphone_handler, plugVars, appVars, micVars>>
    /\ UNCHANGED webVars

\* A second passes on the clock that datetime.now() reads.
Tick ==
    /\ running = NoTask
    /\ now < MaxTime
    /\ now' = now + 1
    /\ UNCHANGED <<running, sessVars, clients_lock, last_device_state,
                   last_microphone_at, last_speaker_at, bcVars, stVars,
                   microphone_handler, plugVars, appVars, micVars>>
    /\ UNCHANGED webVars

\* A browser session on its own: the handshake, the receive loop and the
\* removal of the session.
NextSession ==
    \/ \E ok \in BOOLEAN : setup(ok)
    \/ \E s \in Sessions : handle_client(s)
    \/ \E s \in Sessions : register_client(s)
    \/ \E s \in Sessions : session_send_begin(s)
    \/ \E s \in Sessions, ok \in BOOLEAN : config_sent(s, ok)
    \/ \E s \in Sessions, ok \in BOOLEAN : device_state_sent(s, ok)
    \/ \E s \in Sessions, how \in {"disconnect", "error"} : recv_disconnect(s, how)
    \/ \E s \in Sessions, body \in {"", "pcm"} : recv_bytes(s, body)
    \/ \E s \in Sessions, raised \in BOOLEAN : microphone_handler_done(s, raised)
    \/ \E s \in Sessions, t \in Texts : recv_text(s, t)
    \/ \E s \in Sessions, ok \in BOOLEAN : pong_sent(s, ok)
    \/ \E s \in Sessions : remove_client(s)

\* Sessions together with the broadcasts of device states and speaker audio;
\* of the inbound messages only those that make the session write (a ping)
\* or end (a disconnect) are drawn.
NextBroadcast ==
    \/ \E ok \in BOOLEAN : setup(ok)
    \/ \E s \in Sessions : handle_client(s)
    \/ \E s \in Sessions : register_client(s)
    \/ \E s \in Sessions : session_send_begin(s)
    \/ \E s \in Sessions, ok \in BOOLEAN : config_sent(s, ok)
    \/ \E s \in Sessions, ok \in BOOLEAN : device_state_sent(s, ok)
    \/ \E s \in Sessions, how \in {"disconnect", "error"} : recv_disconnect(s, how)
    \/ \E s \in Sessions, t \in {"{\"type\":\"ping\"}"} : recv_text(s, t)
    \/ \E s \in Sessions, ok \in BOOLEAN : pong_sent(s, ok)
    \/ \E s \in Sessions : remove_client(s)
    \/ \E b \in FirstCalls, st \in PublishedStates : broadcast_device_state(b, st)
    \/ \E b \in FirstCalls, d \in {"nodata", "raise", "empty", "pcm"} : on_incoming_audio(b, d)
    \/ \E b \in FirstCalls : take_snapshot(b)
    \/ \E b \in FirstCalls : fan_out_next(b)
    \/ \E b \in FirstCalls : broadcast_send_begin(b)
    \/ \E b \in FirstCalls, ok \in BOOLEAN : broadcast_send_done(b, ok)

\* The handler slot of the bridge over the life of the plugin, with
\* sessions that send microphone chunks.
NextHandler ==
    \/ \E ok \in BOOLEAN : setup(ok)
    \/ shutdown
    \/ \E h \in {"other"} : set_microphone_handler(h)
    \/ \E s \in Sessions : handle_client(s)
    \/ \E s \in Sessions : register_client(s)
    \/ \E s \in Sessions : session_send_begin(s)
    \/ \E s \in Sessions, ok \in {TRUE} : config_sent(s, ok)
    \/ \E s \in Sessions, ok \in {TRUE} : device_state_sent(s, ok)
    \/ \E s \in Sessions, body \in {"", "pcm"} : recv_bytes(s, body)
    \/ \E s \in Sessions, raised \in BOOLEAN : microphone_handler_done(s, raised)
    \/ \E s \in Sessions,
          t \in {"{\"type\":\"mic\",\"active\":true}",
                 "{\"type\":\"mic\",\"active\":false}"} : recv_text(s, t)
    \/ Tick

\* Sessions that get every kind of message while device states and speaker
\* audio are broadcast and the status is queried.
NextFlags ==
    \/ \E ok \in {TRUE} : setup(ok)
    \/ \E s \in Sessions : handle_client(s)
    \/ \E s \in Sessions : register_client(s)
    \/ \E s \in Sessions : session_send_begin(s)
    \/ \E s \in Sessions, ok \in {TRUE} : config_sent(s, ok)
    \/ \E s \in Sessions, ok \in {TRUE} : device_state_sent(s, ok)
    \/ \E s \in Sessions, body \in {"pcm"} : recv_bytes(s, body)
    \/ \E s \in Sessions, raised \in {FALSE} : microphone_handler_done(s, raised)
    \/ \E s \in Sessions,
          t \in {"{\"type\":\"mic\",\"active\":true}",
                 "{\"type\":\"mic\",\"active\":false}",
                 "{\"type\":\"ping\"}",
                 "{\"type\":\"notice\",\"message\":\"hi\"}"} : recv_text(s, t)
    \/ \E s \in Sessions, ok \in {TRUE} : pong_sent(s, ok)
    \/ \E b \in {1}, st \in {"speaking"} : broadcast_device_state(b, st)
    \/ \E b \in {1}, d \in {"pcm"} : on_incoming_audio(b, d)
    \/ \E b \in {1} : take_snapshot(b)
    \/ \E b \in {1} : fan_out_next(b)
    \/ \E b \in {1} : broadcast_send_begin(b)
    \/ \E b \in {1}, ok \in {TRUE} : broadcast_send_done(b, ok)
    \/ \E g \in {1} : get_status(g)
    \/ \E g \in {1} : status_returned(g)
    \/ \E g \in {1} : status_read(g)

\* Status queries while sessions connect, switch their microphone on and
\* off and go away.
NextStatus ==
    \/ \E s \in Sessions : handle_client(s)
    \/ \E s \in Sessions : register_client(s)
    \/ \E s \in Sessions : session_send_begin(s)
    \/ \E s \in Sessions, ok \in BOOLEAN : config_sent(s, ok)
    \/ \E s \in Sessions, ok \in BOOLEAN : device_state_sent(s, ok)
    \/ \E s \in Sessions, how \in {"disconnect", "error"} : recv_disconnect(s, how)
    \/ \E s \in Sessions,
          t \in {"{\"type\":\"mic\",\"active\":true}",
                 "{\"type\":\"mic\",\"active\":false}"} : recv_text(s, t)
    \/ \E s \in Sessions : remove_client(s)
    \/ \E g \in {1} : get_status(g)
    \/ \E g \in {1} : status_returned(g)
    \/ \E g \in {1} : status_read(g)

\* Status queries while one session streams its microphone, speaker audio
\* is broadcast and the clock goes on.
NextActivity ==
    \/ \E ok \in {TRUE} : setup(ok)
    \/ \E s \in {1} : handle_client(s)
    \/ \E s \in {1} : register_client(s)
    \/ \E s \in {1} : session_send_begin(s)
    \/ \E s \in {1}, ok \in {TRUE} : config_sent(s, ok)
    \/ \E s \in {1}, ok \in {TRUE} : device_state_sent(s, ok)
    \/ \E s \in {1}, body \in {"pcm"} : recv_bytes(s, body)
    \/ \E s \in {1}, raised \in {FALSE} : microphone_handler_done(s, raised)
    \/ \E s \in {1}, t \in {"{\"type\":\"mic\",\"active\":true}"} : recv_text(s, t)
    \/ \E b \in FirstCalls, d \in {"pcm"} : on_incoming_audio(b, d)
    \/ \E b \in FirstCalls : take_snapshot(b)
    \/ \E b \in FirstCalls : fan_out_next(b)
    \/ \E b \in FirstCalls : broadcast_send_begin(b)
    \/ \E b \in FirstCalls, ok \in {TRUE} : broadcast_send_done(b, ok)
    \/ \E g \in {1} : get_status(g)
    \/ \E g \in {1} : status_returned(g)
    \/ \E g \in {1} : status_read(g)
    \/ Tick

\* Broadcast calls of both kinds that overlap, to sessions that connect
\* and go away; every send may fail.
NextOrder ==
    \/ \E ok \in {TRUE} : setup(ok)
    \/ \E s \in Sessions : handle_client(s)
    \/ \E s \in Sessions : register_client(s)
    \/ \E s \in Sessions : session_send_begin(s)
    \/ \E s \in Sessions, ok \in {TRUE} : config_sent(s, ok)
    \/ \E s \in Sessions, ok \in {TRUE} : device_state_sent(s, ok)
    \/ \E s \in Sessions, how \in {"disconnect"} : recv_disconnect(s, how)
    \/ \E s \in Sessions : remove_client(s)
    \/ \E b \in Broadcasts, st \in PublishedStates : broadcast_device_state(b, st)
    \/ \E b \in Broadcasts, d \in {"pcm"} : on_incoming_audio(b, d)
    \/ \E b \in Broadcasts : take_snapshot(b)
    \/ \E b \in Broadcasts : fan_out_next(b)
    \/ \E b \in Broadcasts : broadcast_send_begin(b)
    \/ \E b \in Broadcasts, ok \in BOOLEAN : broadcast_send_done(b, ok)

\* Inbound audio frames, decoded and broadcast to the sessions.
NextSpeaker ==
    \/ \E ok \in BOOLEAN : setup(ok)
    \/ \E s \in Sessions : handle_client(s)
    \/ \E s \in Sessions : register_client(s)
    \/ \E s \in Sessions : session_send_begin(s)
    \/ \E s \in Sessions, ok \in {TRUE} : config_sent(s, ok)
    \/ \E s \in Sessions, ok \in {TRUE} : device_state_sent(s, ok)
    \/ \E s \in Sessions, how \in {"disconnect"} : recv_disconnect(s, how)
    \/ \E s \in Sessions : remove_client(s)
    \/ \E b \in Broadcasts, d \in {"nodata", "raise", "empty"} \cup DecodedPcm :
          on_incoming_audio(b, d)
    \/ \E b \in Broadcasts : take_snapshot(b)
    \/ \E b \in Broadcasts : fan_out_next(b)
    \/ \E b \in Broadcasts : broadcast_send_begin(b)
    \/ \E b \in Broadcasts, ok \in BOOLEAN : broadcast_send_done(b, ok)

\* Broadcasts whose sends fail, to sessions that stay or go away, and
\* status queries.
NextFailure ==
    \/ \E ok \in {TRUE} : setup(ok)
    \/ \E s \in Sessions : handle_client(s)
    \/ \E s \in Sessions : register_client(s)
    \/ \E s \in Sessions : session_send_begin(s)
    \/ \E s \in Sessions, ok \in {TRUE} : config_sent(s, ok)
    \/ \E s \in Sessions, ok \in {TRUE} : device_state_sent(s, ok)
    \/ \E s \in Sessions, how \in {"disconnect", "error"} : recv_disconnect(s, how)
    \/ \E s \in Sessions : remove_client(s)
    \/ \E b \in FirstCalls, st \in {"speaking"} : broadcast_device_state(b, st)
    \/ \E b \in FirstCalls, d \in {"pcm"} : on_incoming_audio(b, d)
    \/ \E b \in FirstCalls : take_snapshot(b)
    \/ \E b \in FirstCalls : fan_out_next(b)
    \/ \E b \in FirstCalls : broadcast_send_begin(b)
    \/ \E b \in FirstCalls, ok \in BOOLEAN : broadcast_send_done(b, ok)
    \/ \E g \in {1} : get_status(g)
    \/ \E g \in {1} : status_returned(g)
    \/ \E g \in {1} : status_read(g)

\* State changes published while sessions connect and go away; no send
\* fails.
NextConverge ==
    \/ \E s \in Sessions : handle_client(s)
    \/ \E s \in Sessions : register_client(s)
    \/ \E s \in Sessions : session_send_begin(s)
    \/ \E s \in Sessions, ok \in {TRUE} : config_sent(s, ok)
    \/ \E s \in Sessions, ok \in {TRUE} : device_state_sent(s, ok)
    \/ \E s \in Sessions, how \in {"disconnect"} : recv_disconnect(s, how)
    \/ \E s \in Sessions : remove_client(s)
    \/ \E b \in Broadcasts, st \in PublishedStates : broadcast_device_state(b, st)
    \/ \E b \in Broadcasts : take_snapshot(b)
    \/ \E b \in Broadcasts : fan_out_next(b)
    \/ \E b \in Broadcasts : broadcast_send_begin(b)
    \/ \E b \in Broadcasts, ok \in {TRUE} : broadcast_send_done(b, ok)

\* One broadcast call.
OneCall == {b \in Broadcasts : b = 1}

\* Every user of the three kinds of lock at once: microphone chunks
\* forwarded under the send lock, sessions that connect and go away (after
\* a config message that could not be sent, or a disconnect), a broadcast
\* and a status query.
NextLocks ==
    \/ \E ok \in {TRUE} : setup(ok)
    \/ \E c \in Callers, n \in {frame_bytes} : on_microphone_bytes(c, n)
    \/ \E c \in Callers : slice_frame(c)
    \/ \E c \in Callers, w \in {"data"} : forward_audio(c, w)
    \/ \E c \in Callers : encode_and_lock(c)
    \/ \E c \in Callers : send_audio_begin(c)
    \/ \E c \in Callers, ok \in {TRUE} : send_audio_done(c, ok)
    \/ \E s \in Sessions : handle_client(s)
    \/ \E s \in Sessions : register_client(s)
    \/ \E s \in Sessions : session_send_begin(s)
    \/ \E s \in Sessions, ok \in BOOLEAN : config_sent(s, ok)
    \/ \E s \in Sessions, ok \in {TRUE} : device_state_sent(s, ok)
    \/ \E s \in Sessions, how \in {"disconnect"} : recv_disconnect(s, how)
    \/ \E s \in Sessions : remove_client(s)
    \/ \E b \in OneCall, st \in {"speaking"} : broadcast_device_state(b, st)
    \/ \E b \in OneCall : take_snapshot(b)
    \/ \E b \in OneCall : fan_out_next(b)
    \/ \E b \in OneCall : broadcast_send_begin(b)
    \/ \E b \in OneCall, ok \in {TRUE} : broadcast_send_done(b, ok)
    \/ \E g \in {1} : get_status(g)
    \/ \E g \in {1} : status_returned(g)

\* The event loop runs every task that is ready, and every send that was
\* started ends.
FairLocks ==
    /\ \A c \in Callers : WF_vars(slice_frame(c))
    /\ \A c \in Callers : WF_vars(\E w \in {"data"} : forward_audio(c, w))
    /\ \A c \in Callers : WF_vars(encode_and_lock(c))
    /\ \A c \in Callers : WF_vars(send_audio_begin(c))
    /\ \A c \in Callers : WF_vars(\E ok \in {TRUE} : send_audio_done(c, ok))
    /\ \A s \in Sessions : WF_vars(register_client(s))
    /\ \A s \in Sessions : WF_vars(session_send_begin(s))
    /\ \A s \in Sessions : WF_vars(\E ok \in BOOLEAN : config_sent(s, ok))
    /\ \A s \in Sessions : WF_vars(\E ok \in {TRUE} : device_state_sent(s, ok))
    /\ \A s \in Sessions : WF_vars(remove_client(s))
    /\ \A b \in OneCall : WF_vars(take_snapshot(b))
    /\ \A b \in OneCall : WF_vars(fan_out_next(b))
    /\ \A b \in OneCall : WF_vars(broadcast_send_begin(b))
    /\ \A b \in OneCall : WF_vars(\E ok \in {TRUE} : broadcast_send_done(b, ok))
    /\ WF_vars(\E g \in {1} : status_returned(g))

\* Microphone chunks and inbound audio against the clock: chunks that are
\* empty or not, on sessions that stream or not, with and without a
\* handler that returns or raises; audio that decodes to something or to
\* nothing, broadcast to no, one or two sessions with sends that may fail.
NextStamps ==
    \/ \E ok \in {TRUE} : setup(ok)
    \/ shutdown
    \/ \E s \in Sessions : handle_client(s)
    \/ \E s \in Sessions : register_client(s)
    \/ \E s \in Sessions : session_send_begin(s)
    \/ \E s \in Sessions, ok \in {TRUE} : config_sent(s, ok)
    \/ \E s \in Sessions, ok \in {TRUE} : device_state_sent(s, ok)
    \/ \E s \in Sessions, body \in {"", "pcm"} : recv_bytes(s, body)
    \/ \E s \in Sessions, raised \in BOOLEAN : microphone_handler_done(s, raised)
    \/ \E s \in Sessions,
          t \in {"{\"type\":\"mic\",\"active\":true}"} : recv_text(s, t)
    \/ \E b \in OneCall, d \in {"nodata", "empty", "pcm"} : on_incoming_audio(b, d)
    \/ \E b \in OneCall : take_snapshot(b)
    \/ \E b \in OneCall : fan_out_next(b)
    \/ \E b \in OneCall : broadcast_send_begin(b)
    \/ \E b \in OneCall, ok \in BOOLEAN : broadcast_send_done(b, ok)
    \/ Tick

\* The microphone path of a listening application whose channel may
\* close, with a shutdown of the plugin at any moment.
NextStop ==
    \/ \E ok \in {TRUE} : setup(ok)
    \/ shutdown
    \/ \E st \in ChannelStates : ChannelDrops(st)
    \/ \E c \in Callers, n \in {frame_bytes, frame_bytes + 1} : on_microphone_bytes(c, n)
    \/ \E c \in Callers : slice_frame(c)
    \/ \E c \in Callers, w \in {"data"} : forward_audio(c, w)
    \/ \E c \in Callers, res \in {"true", "false"} : connect_protocol_done(c, res)
    \/ \E c \in Callers : encode_and_lock(c)
    \/ \E c \in Callers : send_audio_begin(c)
    \/ \E c \in Callers, ok \in BOOLEAN : send_audio_done(c, ok)

\* Sessions that connect and go away while device states are broadcast.
NextTeardown ==
    \/ \E s \in Sessions : handle_client(s)
    \/ \E s \in Sessions : register_client(s)
    \/ \E s \in Sessions : session_send_begin(s)
    \/ \E s \in Sessions, ok \in BOOLEAN : config_sent(s, ok)
    \/ \E s \in Sessions, ok \in BOOLEAN : device_state_sent(s, ok)
    \/ \E s \in Sessions, how \in {"disconnect", "error"} : recv_disconnect(s, how)
    \/ \E s \in Sessions : remove_client(s)
    \/ \E b \in FirstCalls, st \in {"speaking"} : broadcast_device_state(b, st)
    \/ \E b \in FirstCalls : take_snapshot(b)
    \/ \E b \in FirstCalls : fan_out_next(b)
    \/ \E b \in FirstCalls : broadcast_send_begin(b)
    \/ \E b \in FirstCalls, ok \in BOOLEAN : broadcast_send_done(b, ok)

\* The event loop runs every task that is ready: a task that was given a
\* lock, or that is between two awaits, goes on.  Nothing in the code bounds
\* the time a websocket send or receive takes, so the completions of sends
\* and the arrival of messages carry no fairness.
FairLoop ==
    /\ \A s \in Sessions : WF_vars(register_client(s))
    /\ \A s \in Sessions : WF_vars(session_send_begin(s))
    /\ \A s \in Sessions : WF_vars(remove_client(s))
    /\ \A b \in FirstCalls : WF_vars(take_snapshot(b))
    /\ \A b \in FirstCalls : WF_vars(fan_out_next(b))
    /\ \A b \in FirstCalls : WF_vars(broadcast_send_begin(b))

\* ====================================== ProcessController (controller.py)
\* The calls of start and of stop are numbered in the order of their arrival;
\* child i is the process that the i-th call of start spawns, and monitor i
\* the _monitor_process task that the same call creates.
Starts == 1..NumStarts
Stops == 1..NumStops
Children == Starts
\* None, as a process, a task or a pid.
NoChild == 0
\* process.returncode and exit_code before the child has exited.
NoCode == 0 - 1
\* The return codes of a child: 0, and one that is not 0.
ReturnCodes == {0, 1}

StartTask(i) == <<"start", i>>
StopTask(j) == <<"stop", j>>
MonTask(k) == <<"mon", k>>
AllMonitors == [k \in Children |-> MonTask(k)]
AllStops == [j \in Stops |-> StopTask(j)]

\* ProcessStatus(status=...), lines 20-30: pid and exit_code default to None.
ProcessStatus(st) == [status |-> st, pid |-> NoChild, exit_code |-> NoCode]

\* is_running, lines 53-54.
is_running == process # NoChild /\ returncode[process] = NoCode

\* ---- the event loop
\* The loop runs the task at the head of its queue up to its next await.
Turn(t) == ready # <<>> /\ Head(ready) = t
\* The queue after that step: the task goes on at once when its await does
\* not suspend, and the tasks the step woke are put at the end.
After(goes_on, woken) ==
    /\ ready' = (IF goes_on THEN <<Head(ready)>> ELSE <<>>)
                 \o Tail(ready) \o woken
    /\ midstep' = goes_on
\* What reaches the loop from outside (a request, the exit of a child, the
\* end of a pipe) is handled between two steps, and wakes tasks.
Arrives(woken) ==
    /\ ~midstep
    /\ ready' = ready \o woken
    /\ UNCHANGED midstep
\* The task that release() of the lock wakes.
Woken(l) == IF l.holder = NoTask THEN <<>> ELSE <<l.holder>>
\* The tasks inside process.wait() of child k: the monitor, then the calls of
\* stop, which wait through asyncio.wait_for.
ProcessWaiters(k) ==
    SelectSeq(AllMonitors, LAMBDA t :
        monpc[t[2]] = "wait" /\ monlocal[t[2]].process = k)
    \o SelectSeq(AllStops, LAMBDA t :
        stoppc[t[2]] = "wait" /\ stoplocal[t[2]].process = k)
\* The monitors that await the stream tasks of child k.
StreamWaiters(k) ==
    SelectSeq(AllMonitors, LAMBDA t :
        monpc[t[2]] \in {"stdout", "stderr"} /\ monlocal[t[2]].stream = k)
\* The calls of stop that await monitor k.
MonitorWaiters(k) ==
    SelectSeq(AllStops, LAMBDA t :
        stoppc[t[2]] = "monitor" /\ stoplocal[t[2]].monitor = k)
\* An awaited task that is absent or finished does not suspend the caller.
StreamsDone(k) == k = NoChild \/ streams[k] = "done"

InitController ==
    /\ process = NoChild
    /\ cstatus = ProcessStatus("idle")
    /\ stream_task = NoChild
    /\ monitor_task = NoChild
    /\ ctl_lock = FreeLock
    /\ ready = <<>>
    /\ midstep = FALSE
    /\ child = [k \in Children |-> "unborn"]
    /\ returncode = [k \in Children |-> NoCode]
    /\ streams = [k \in Children |-> "none"]
    /\ startpc = [i \in Starts |-> "idle"]
    /\ stoppc = [j \in Stops |-> "idle"]
    /\ monpc = [k \in Children |-> "none"]
    /\ stoplocal = [j \in Stops |-> [process |-> NoChild, monitor |-> NoChild]]
    /\ monlocal = [k \in Children |->
                      [process |-> NoChild, returncode |-> NoCode,
                       stream |-> NoChild]]
    /\ startres = [i \in Starts |-> "none"]
    /\ stopres = [j \in Stops |-> "none"]

\* ---- start
\* A request to start arrives: its task is put on the loop.
start_request(i) ==
    /\ startpc[i] = "idle"
    /\ \A h \in Starts : h < i => startpc[h] # "idle"
    /\ startpc' = [startpc EXCEPT ![i] = "call"]
    /\ Arrives(<<StartTask(i)>>)
    /\ UNCHANGED <<process, cstatus, stream_task, monitor_task, ctl_lock,
                   child, returncode, streams, stoppc, monpc, stoplocal,
                   monlocal, startres, stopres>>
    /\ UNCHANGED <<relayVars, uiVars>>

\* start, line 65: async with self._lock.
start(i) ==
    /\ Turn(StartTask(i))
    /\ startpc[i] = "call"
    /\ ctl_lock' = Acquire(ctl_lock, StartTask(i))
    /\ startpc' = [startpc EXCEPT ![i] = "lock"]
    /\ After(~Yields(ctl_lock), <<>>)
    /\ UNCHANGED <<process, cstatus, stream_task, monitor_task,
                   child, returncode, streams, stoppc, monpc, stoplocal,
                   monlocal, startres, stopres>>
    /\ UNCHANGED <<relayVars, uiVars>>

\* start, lines 66-105, with the lock: the two checks, the status 'starting'
\* and the spawn.  Popen raises FileNotFoundError before
\* create_subprocess_exec suspends; otherwise the child runs from here on
\* and the call waits for its pipes.
start_locked(i, main_exists, exec_found) ==
    /\ Turn(StartTask(i))
    /\ startpc[i] = "lock"
    /\ ctl_lock.holder = StartTask(i)
    /\ IF is_running
       THEN /\ startres' = [startres EXCEPT ![i] = "conflict"]
            /\ UNCHANGED <<cstatus, child>>
       ELSE IF ~main_exists
       THEN /\ startres' = [startres EXCEPT ![i] = "missing"]
            /\ UNCHANGED <<cstatus, child>>
       ELSE IF ~exec_found
       THEN /\ startres' = [startres EXCEPT ![i] = "nospawn"]
            /\ cstatus' = ProcessStatus("starting")
            /\ UNCHANGED child
       ELSE /\ cstatus' = ProcessStatus("starting")
            /\ child' = [child EXCEPT ![i] = "running"]
            /\ UNCHANGED startres
    /\ IF ~is_running /\ main_exists /\ exec_found
       THEN /\ startpc' = [startpc EXCEPT ![i] = "spawn"]
            /\ After(FALSE, <<>>)
            /\ UNCHANGED ctl_lock
       ELSE /\ startpc' = [startpc EXCEPT ![i] = "done"]
            /\ ctl_lock' = Release(ctl_lock)
            /\ After(FALSE, Woken(Release(ctl_lock)))
    /\ UNCHANGED <<process, stream_task, monitor_task, returncode, streams,
                   stoppc, monpc, stoplocal, monlocal, stopres>>
    /\ UNCHANGED <<relayVars, uiVars>>

\* create_subprocess_exec, line 94: the pipes of the child are connected and
\* the call of start is woken.
subprocess_connected(i) ==
    /\ startpc[i] = "spawn"
    /\ startpc' = [startpc EXCEPT ![i] = "connected"]
    /\ Arrives(<<StartTask(i)>>)
    /\ UNCHANGED <<process, cstatus, stream_task, monitor_task, ctl_lock,
                   child, returncode, streams, stoppc, monpc, stoplocal,
                   monlocal, startres, stopres>>
    /\ UNCHANGED <<relayVars, uiVars>>

\* start, lines 107-124: the process reference, the status 'running', the
\* stream tasks and the monitor task; the lock is released.
start_spawned(i) ==
    /\ Turn(StartTask(i))
    /\ startpc[i] = "connected"
    /\ process' = i
    /\ cstatus' = [cstatus EXCEPT !.status = "running", !.pid = i]
    /\ stream_task' = i
    /\ streams' = [streams EXCEPT ![i] = "open"]
    /\ monitor_task' = i
    /\ monpc' = [monpc EXCEPT ![i] = "new"]
    /\ startres' = [startres EXCEPT ![i] = "ok"]
    /\ startpc' = [startpc EXCEPT ![i] = "done"]
    /\ ctl_lock' = Release(ctl_lock)
    /\ After(FALSE, <<MonTask(i)>> \o Woken(Release(ctl_lock)))
    /\ UNCHANGED <<child, returncode, stoppc, stoplocal, monlocal, stopres>>
    /\ UNCHANGED <<relayVars, uiVars>>

\* ---- the child
\* The loop learns that child k has exited: returncode is set and the tasks
\* inside process.wait() are woken.
child_exits(k, rc) ==
    /\ child[k] = "running"
    /\ child' = [child EXCEPT ![k] = "exited"]
    /\ returncode' = [returncode EXCEPT ![k] = rc]
    /\ Arrives(ProcessWaiters(k))
    /\ UNCHANGED <<process, cstatus, stream_task, monitor_task, ctl_lock,
                   streams, startpc, stoppc, monpc, stoplocal, monlocal,
                   startres, stopres>>
    /\ UNCHANGED <<relayVars, uiVars>>

\* _read_stream, lines 184-196: the pipes of child k are at their end and
\* the two stream tasks finish.  The loop has them just before the monitor
\* that start created after them, so they do not finish before the steps
\* that are due before the monitor's first.
streams_end(k) ==
    /\ streams[k] = "open"
    /\ monpc[k] # "new" \/ Turn(MonTask(k))
    /\ streams' = [streams EXCEPT ![k] = "done"]
    /\ Arrives(StreamWaiters(k))
    /\ UNCHANGED <<process, cstatus, stream_task, monitor_task, ctl_lock,
                   child, returncode, startpc, stoppc, monpc, stoplocal,
                   monlocal, startres, stopres>>
    /\ UNCHANGED <<relayVars, uiVars>>

\* ---- _monitor_process
\* _monitor_process, lines 158-161: the monitor returns when there is no
\* process, and waits for the process otherwise.
monitor_process(k) ==
    /\ Turn(MonTask(k))
    /\ monpc[k] = "new"
    /\ IF process = NoChild
       THEN /\ monpc' = [monpc EXCEPT ![k] = "done"]
            /\ After(FALSE, MonitorWaiters(k))
            /\ UNCHANGED monlocal
       ELSE /\ monpc' = [monpc EXCEPT ![k] = "wait"]
            /\ monlocal' = [monlocal EXCEPT ![k].process = process]
            /\ After(returncode[process] # NoCode, <<>>)
    /\ UNCHANGED <<process, cstatus, stream_task, monitor_task, ctl_lock,
                   child, returncode, streams, startpc, stoppc, stoplocal,
                   startres, stopres>>
    /\ UNCHANGED <<relayVars, uiVars>>

\* _monitor_process, lines 161-164: process.wait() has returned; the monitor
\* awaits the stdout task the controller has now.
monitor_waited(k) ==
    /\ Turn(MonTask(k))
    /\ monpc[k] = "wait"
    /\ monpc' = [monpc EXCEPT ![k] = "stdout"]
    /\ monlocal' = [monlocal EXCEPT
                       ![k].returncode = returncode[monlocal[k].process],
                       ![k].stream = stream_task]
    /\ After(StreamsDone(stream_task), <<>>)
    /\ UNCHANGED <<process, cstatus, stream_task, monitor_task, ctl_lock,
                   child, returncode, streams, startpc, stoppc, stoplocal,
                   startres, stopres>>
    /\ UNCHANGED <<relayVars, uiVars>>

\* _monitor_process, lines 165-166: the monitor awaits the stderr task the
\* controller has now.
monitor_stdout_done(k) ==
    /\ Turn(MonTask(k))
    /\ monpc[k] = "stdout"
    /\ monpc' = [monpc EXCEPT ![k] = "stderr"]
    /\ monlocal' = [monlocal EXCEPT ![k].stream = stream_task]
    /\ After(StreamsDone(stream_task), <<>>)
    /\ UNCHANGED <<process, cstatus, stream_task, monitor_task, ctl_lock,
                   child, returncode, streams, startpc, stoppc, stoplocal,
                   startres, stopres>>
    /\ UNCHANGED <<relayVars, uiVars>>

\* _monitor_process, line 168: async with self._lock.
monitor_stderr_done(k) ==
    /\ Turn(MonTask(k))
    /\ monpc[k] = "stderr"
    /\ monpc' = [monpc EXCEPT ![k] = "lock"]
    /\ ctl_lock' = Acquire(ctl_lock, MonTask(k))
    /\ After(~Yields(ctl_lock), <<>>)
    /\ UNCHANGED <<process, cstatus, stream_task, monitor_task,
                   child, returncode, streams, startpc, stoppc, stoplocal,
                   monlocal, startres, stopres>>
    /\ UNCHANGED <<relayVars, uiVars>>

\* The status the monitor sets for a return code, lines 171-176.
exit_status(rc) == IF rc = 0 THEN "stopped" ELSE "failed"

\* _monitor_process, lines 169-182, with the lock: the status of the exit,
\* and the references cleared.  The tasks that await the monitor are woken
\* after the task that waits for the lock.
monitor_locked(k) ==
    /\ Turn(MonTask(k))
    /\ monpc[k] = "lock"
    /\ ctl_lock.holder = MonTask(k)
    /\ cstatus' = [cstatus EXCEPT
                      !.pid = NoChild,
                      !.exit_code = monlocal[k].returncode,
                      !.status = exit_status(monlocal[k].returncode)]
    /\ process' = NoChild
    /\ stream_task' = NoChild
    /\ monitor_task' = NoChild
    /\ monpc' = [monpc EXCEPT ![k] = "done"]
    /\ ctl_lock' = Release(ctl_lock)
    /\ After(FALSE, Woken(Release(ctl_lock)) \o MonitorWaiters(k))
    /\ UNCHANGED <<child, returncode, streams, startpc, stoppc, stoplocal,
                   monlocal, startres, stopres>>
    /\ UNCHANGED <<relayVars, uiVars>>

\* ---- stop
\* A request to stop arrives: its task is put on the loop.
stop_request(j) ==
    /\ stoppc[j] = "idle"
    /\ \A h \in Stops : h < j => stoppc[h] # "idle"
    /\ stoppc' = [stoppc EXCEPT ![j] = "call"]
    /\ Arrives(<<StopTask(j)>>)
    /\ UNCHANGED <<process, cstatus, stream_task, monitor_task, ctl_lock,
                   child, returncode, streams, startpc, monpc, stoplocal,
                   monlocal, startres, stopres>>
    /\ UNCHANGED <<relayVars, uiVars>>

\* stop, line 127: async with self._lock.
stop(j) ==
    /\ Turn(StopTask(j))
    /\ stoppc[j] = "call"
    /\ ctl_lock' = Acquire(ctl_lock, StopTask(j))
    /\ stoppc' = [stoppc EXCEPT ![j] = "lock"]
    /\ After(~Yields(ctl_lock), <<>>)
    /\ UNCHANGED <<process, cstatus, stream_task, monitor_task,
                   child, returncode, streams, startpc, monpc, stoplocal,
                   monlocal, startres, stopres>>
    /\ UNCHANGED <<relayVars, uiVars>>

\* stop, lines 128-145, with the lock: the check, the status 'stopping';
\* then, the lock released, the signal and the wait for the process.
stop_locked(j) ==
    /\ Turn(StopTask(j))
    /\ stoppc[j] = "lock"
    /\ ctl_lock.holder = StopTask(j)
    /\ IF ~is_running
       THEN /\ stopres' = [stopres EXCEPT ![j] = "conflict"]
            /\ stoppc' = [stoppc EXCEPT ![j] = "done"]
            /\ UNCHANGED <<cstatus, stoplocal>>
       ELSE /\ stoplocal' = [stoplocal EXCEPT ![j].process = process]
            /\ cstatus' = [cstatus EXCEPT !.status = "stopping"]
            /\ stoppc' = [stoppc EXCEPT ![j] = "wait"]
            /\ UNCHANGED stopres
    /\ ctl_lock' = Release(ctl_lock)
    /\ After(FALSE, Woken(Release(ctl_lock)))
    /\ UNCHANGED <<process, stream_task, monitor_task, child, returncode,
                   streams, startpc, monpc, monlocal, startres>>
    /\ UNCHANGED <<relayVars, uiVars>>

\* stop, lines 145-152: process.wait() has returned; the call awaits the
\* monitor task the controller has now, and returns when there is none.
stop_waited(j) ==
    /\ Turn(StopTask(j))
    /\ stoppc[j] = "wait"
    /\ IF monitor_task = NoChild
       THEN /\ stoppc' = [stoppc EXCEPT ![j] = "done"]
            /\ stopres' = [stopres EXCEPT ![j] = "ok"]
            /\ After(FALSE, <<>>)
            /\ UNCHANGED stoplocal
       ELSE /\ stoppc' = [stoppc EXCEPT ![j] = "monitor"]
            /\ stoplocal' = [stoplocal EXCEPT ![j].monitor = monitor_task]
            /\ After(monpc[monitor_task] = "done", <<>>)
            /\ UNCHANGED stopres
    /\ UNCHANGED <<process, cstatus, stream_task, monitor_task, ctl_lock,
                   child, returncode, streams, startpc, monpc, monlocal,
                   startres>>
    /\ UNCHANGED <<relayVars, uiVars>>

\* stop, line 152: the monitor task has finished and stop returns.
stop_returns(j) ==
    /\ Turn(StopTask(j))
    /\ stoppc[j] = "monitor"
    /\ stoppc' = [stoppc EXCEPT ![j] = "done"]
    /\ stopres' = [stopres EXCEPT ![j] = "ok"]
    /\ After(FALSE, <<>>)
    /\ UNCHANGED <<process, cstatus, stream_task, monitor_task, ctl_lock,
                   child, returncode, streams, startpc, monpc, stoplocal,
                   monlocal, startres>>
    /\ UNCHANGED <<relayVars, uiVars>>

\* Every interleaving of the calls of start and of stop with the life of the
\* children.
NextController ==
    \/ \E i \in Starts : start_request(i)
    \/ \E i \in Starts : start(i)
    \/ \E i \in Starts, main_exists, exec_found \in BOOLEAN :
           start_locked(i, main_exists, exec_found)
    \/ \E i \in Starts : subprocess_connected(i)
    \/ \E i \in Starts : start_spawned(i)
    \/ \E k \in Children, rc \in ReturnCodes : child_exits(k, rc)
    \/ \E k \in Children : streams_end(k)
    \/ \E k \in Children : monitor_process(k)
    \/ \E k \in Children : monitor_waited(k)
    \/ \E k \in Children : monitor_stdout_done(k)
    \/ \E k \in Children : monitor_stderr_done(k)
    \/ \E k \in Children : monitor_locked(k)
    \/ \E j \in Stops : stop_request(j)
    \/ \E j \in Stops : stop(j)
    \/ \E j \in Stops : stop_locked(j)
    \/ \E j \in Stops : stop_waited(j)
    \/ \E j \in Stops : stop_returns(j)

\* ============================================= _WebUIRegistry (state.py)
Displays == 1..NumDisplays
Waiters == 1..NumWaiters
\* None, as a display.
NoDisplay == 0
\* The asyncio.Event objects the registry makes, in the order it makes them.
Events == 1..MaxEvents
\* A call that did not wait has no Event.
NoEvent == 0
\* What a call of wait_for_display can end with.
NoResult == [kind |-> "none", display |-> NoDisplay]
Returned(d) == [kind |-> "display", display |-> d]
TimedOut == [kind |-> "timeout", display |-> NoDisplay]
NotRegistered == [kind |-> "not registered", display |-> NoDisplay]

\* __init__, lines 13-15.
InitRegistry ==
    /\ display = NoDisplay
    /\ event = 1
    /\ event_set = {}
    /\ set_soon = {}
    /\ wpc = [w \in Waiters |-> "idle"]
    /\ wlocal = [w \in Waiters |-> NoEvent]
    /\ wresult = [w \in Waiters |-> NoResult]
    /\ registered = {}

\* register_display, lines 17-25.  With a running loop the Event is set by a
\* callback of the loop, and at once otherwise; setting an Event twice is
\* setting it once.
register_display(d, in_loop) ==
    /\ display' = d
    /\ registered' = registered \cup {d}
    /\ IF event \in event_set
       THEN UNCHANGED <<event_set, set_soon>>
       ELSE IF in_loop
       THEN set_soon' = set_soon \cup {event} /\ UNCHANGED event_set
       ELSE event_set' = event_set \cup {event} /\ UNCHANGED set_soon
    /\ UNCHANGED <<event, wpc, wlocal, wresult>>
    /\ UNCHANGED <<relayVars, ctlVars>>

\* loop.call_soon(self._event.set), line 22: the callback runs and sets the
\* Event that was the registry's when register_display ran.
event_set_soon(e) ==
    /\ e \in set_soon
    /\ set_soon' = set_soon \ {e}
    /\ event_set' = event_set \cup {e}
    /\ UNCHANGED <<display, event, wpc, wlocal, wresult, registered>>
    /\ UNCHANGED <<relayVars, ctlVars>>

\* The Event the registry keeps when the display goes.
event_kept(e) == e

\* The Event the registry has after unregister_display has cleared the
\* display, line 30: a new one.
event_after_unregister(e) == e + 1

\* unregister_display, lines 27-30: a display that is not the current one
\* is left alone.
unregister_display(d) ==
    /\ display = d => event < MaxEvents
    /\ IF display = d
       THEN /\ display' = NoDisplay
            /\ event' = event_after_unregister(event)
       ELSE UNCHANGED <<display, event>>
    /\ UNCHANGED <<event_set, set_soon, wpc, wlocal, wresult, registered>>
    /\ UNCHANGED <<relayVars, ctlVars>>

\* get_display, lines 40-41.
get_display == display

\* wait_for_display, lines 36-38: what the call ends with once the wait is
\* over.
display_or_error == IF display = NoDisplay THEN NotRegistered
                    ELSE Returned(display)

\* wait_for_display, lines 33-35: the display is returned at once when there
\* is one; the call waits for the Event otherwise, and does not suspend when
\* the Event is set.
wait_for_display(w) ==
    /\ wpc[w] = "idle"
    /\ \A v \in Waiters : v < w => wpc[v] # "idle"
    /\ IF display # NoDisplay
       THEN /\ wpc' = [wpc EXCEPT ![w] = "done"]
            /\ wresult' = [wresult EXCEPT ![w] = Returned(display)]
            /\ UNCHANGED wlocal
       ELSE IF event \in event_set
       THEN /\ wpc' = [wpc EXCEPT ![w] = "done"]
            /\ wresult' = [wresult EXCEPT ![w] = display_or_error]
            /\ UNCHANGED wlocal
       ELSE /\ wpc' = [wpc EXCEPT ![w] = "wait"]
            /\ wlocal' = [wlocal EXCEPT ![w] = event]
            /\ UNCHANGED wresult
    /\ UNCHANGED <<display, event, event_set, set_soon, registered>>
    /\ UNCHANGED <<relayVars, ctlVars>>

\* wait_for_display, lines 35-38: the Event is set and the waiter goes on.
event_waited(w) ==
    /\ wpc[w] = "wait"
    /\ wlocal[w] \in event_set
    /\ wpc' = [wpc EXCEPT ![w] = "done"]
    /\ wresult' = [wresult EXCEPT ![w] = display_or_error]
    /\ UNCHANGED <<display, event, event_set, set_soon, wlocal, registered>>
    /\ UNCHANGED <<relayVars, ctlVars>>

\* asyncio.wait_for, line 35: the timeout ends the wait.
wait_timeout(w) ==
    /\ wpc[w] = "wait"
    /\ wpc' = [wpc EXCEPT ![w] = "done"]
    /\ wresult' = [wresult EXCEPT ![w] = TimedOut]
    /\ UNCHANGED <<display, event, event_set, set_soon, wlocal, registered>>
    /\ UNCHANGED <<relayVars, ctlVars>>

\* Every interleaving of the registrations with the waiters.
NextRegistry ==
    \/ \E d \in Displays, in_loop \in BOOLEAN : register_display(d, in_loop)
    \/ \E e \in Events : event_set_soon(e)
    \/ \E d \in Displays : unregister_display(d)
    \/ \E w \in Waiters : wait_for_display(w)
    \/ \E w \in Waiters : event_waited(w)
    \/ \E w \in Waiters : wait_timeout(w)

\* The loop runs the callbacks it was given and the waiters whose Event is
\* set; nothing makes a display register.
FairRegistry ==
    /\ \A e \in Events : WF_vars(event_set_soon(e))
    /\ \A w \in Waiters : WF_vars(event_waited(w))

\* ------------------------------------------------------- specifications
Init ==
    /\ running = NoTask
    /\ microphone_handler = "none"
    /\ InitMic
    /\ InitBridge
    /\ InitController
    /\ InitRegistry

\* The state after construction, for every configuration of the application.
InitAnyApp == Init /\ InitApp

\* The state after construction, the application being idle.
InitIdleApp == Init /\ InitAppDefault

\* The state after construction, the application listening.
InitListeningApp == Init /\ InitAppListening

\* The state after construction, for one application that listens.
InitOneListeningApp == Init /\ InitAppListeningDefault

\* The microphone path with an encoder that fails.
SpecCodec == InitListeningApp /\ [][NextCodec]_vars

\* The microphone path, for every configuration of the application.
SpecMic == InitAnyApp /\ [][NextMic]_vars

\* The sessions of the bridge.
SpecSession == InitIdleApp /\ [][NextSession]_vars

\* The sessions and the broadcasts of the bridge.
SpecBroadcast == InitIdleApp /\ [][NextBroadcast]_vars

\* The status queries of the bridge.
SpecStatus == InitIdleApp /\ [][NextStatus]_vars

\* The activity flags of the status against the clock.
SpecActivity == InitIdleApp /\ [][NextActivity]_vars

\* The handler slot.
SpecHandler == InitIdleApp /\ [][NextHandler]_vars

\* The speaker path.
SpecSpeaker == InitIdleApp /\ [][NextSpeaker]_vars

\* The streaming flags.
SpecFlags == InitIdleApp /\ [][NextFlags]_vars

\* Broadcasts whose sends fail.
SpecFailure == InitIdleApp /\ [][NextFailure]_vars

\* Overlapping broadcast calls.
SpecOrder == InitIdleApp /\ [][NextOrder]_vars

\* All the users of the locks, with a fair event loop and sends that end.
SpecLocks == InitOneListeningApp /\ [][NextLocks]_vars /\ FairLocks

\* The microphone path and the shutdown of the plugin.
SpecStop == InitOneListeningApp /\ [][NextStop]_vars

\* The two activity times against the clock.
SpecStamps == InitIdleApp /\ [][NextStamps]_vars

\* State changes and connecting sessions, without failing sends.
SpecConverge == InitIdleApp /\ [][NextConverge]_vars

\* The teardown of sessions under the event loop's scheduling.
SpecTeardown == InitIdleApp /\ [][NextTeardown]_vars /\ FairLoop

\* The process controller.
SpecController == InitIdleApp /\ [][NextController]_vars

\* The registry of the web display, the loop being fair.
SpecRegistry == InitIdleApp /\ [][NextRegistry]_vars /\ FairRegistry

\* ================================================================ claims
RECURSIVE Flatten(_)
Flatten(ss) == IF ss = <<>> THEN <<>> ELSE Head(ss) \o Flatten(Tail(ss))

Range(f) == {f[i] : i \in DOMAIN f}

AllReturned == \A c \in Callers : mpc[c] = "idle"

\* C1: every sliced frame is exactly frame_bytes long and was passed to the
\* forwarder; the frames followed by the buffer are the received bytes in
\* arrival order; and once every call has returned, K = total div frame_bytes
\* frames were sliced and R = total mod frame_bytes bytes remain buffered.
C1_FramesAndRemainder ==
    /\ \A i \in 1..Len(frames) : Len(frames[i]) = frame_bytes
    /\ Flatten(frames) \o buffer = received
    /\ fwdCount = Len(frames)
    /\ AllReturned =>
          /\ Len(frames) = Len(received) \div frame_bytes
          /\ Len(buffer) = Len(received) % frame_bytes

\* C1 witness: all calls have returned, two frames were forwarded and one
\* byte is left in the buffer.
C1_Witness ==
    /\ AllReturned
    /\ Len(received) = 2 * frame_bytes + 1
    /\ fwdCount = 2
    /\ Len(buffer) = 1

\* The device states the forwarder's gate lets through, as the claims list
\* them.
GatePermits(g) ==
    \/ g.ds = "listening" /\ ~g.aborted
    \/ g.ds = "speaking" /\ g.aec /\ g.keep /\ g.mode = "realtime"

GateRefuses(g) ==
    \/ g.ds = "idle"
    \/ g.ds = "speaking" /\ (~g.aec \/ ~g.keep \/ g.mode # "realtime")

\* C7 (amended): a frame that reaches the gate while the device is LISTENING
\* and not aborted, or SPEAKING with echo cancellation, keep-listening and
\* REALTIME mode, and for which the encoder returns data, is encoded exactly
\* once and given to send_audio exactly once.
C7_PermittedFrameEncodedAndSentOnce ==
    \A c \in Callers :
        /\ cur[c].enc <= 1
        /\ cur[c].snd <= 1
        /\ (cur[c].done /\ GatePermits(cur[c].gate) /\ cur[c].encWill = "data")
              => (cur[c].enc = 1 /\ cur[c].snd = 1)

\* C7 witness: a frame forwarded with the channel open and the device
\* LISTENING was encoded once and sent once.
C7_Witness ==
    \E c \in Callers :
        /\ cur[c].done
        /\ cur[c].chanAtEntry = "open"
        /\ cur[c].gate.ds = "listening"
        /\ cur[c].enc = 1
        /\ cur[c].snd = 1

\* C7 as stated: LISTENING, channel open and a non-empty encoder result are
\* enough for exactly one encode and one send.
C7_ListeningAlwaysSends ==
    \A c \in Callers :
        (cur[c].done /\ cur[c].chanAtEntry = "open"
           /\ cur[c].gate.ds = "listening" /\ cur[c].encWill = "data")
          => (cur[c].enc = 1 /\ cur[c].snd = 1)

\* C8: a frame that reaches the gate in a state that does not permit
\* transmission is neither encoded nor sent, and none of its bytes stays in
\* the buffer or reaches upstream.
C8_RefusedFrameDropped ==
    \A c \in Callers :
        (cur[c].gate # NoGate /\ GateRefuses(cur[c].gate)) =>
            /\ cur[c].done
            /\ mpc[c] = "loop"
            /\ cur[c].enc = 0
            /\ cur[c].snd = 0
            /\ cur[c].frame \notin Range(upstream)
            /\ Range(cur[c].frame) \cap Range(buffer) = {}

\* C8 witness: a frame was dropped at the gate while the device was SPEAKING
\* with echo cancellation disabled.
C8_Witness ==
    \E c \in Callers :
        /\ cur[c].done
        /\ cur[c].gate.ds = "speaking"
        /\ ~cur[c].gate.aec
        /\ cur[c].encWill = "data"
        /\ cur[c].enc = 0

\* The sessions a broadcast call still has to write to.
Pending(b) == Range(bsnap[b])

\* The call has written to every session of its list and is about to return.
Finishing(b) == bpc[b] = "iter" /\ bsnap[b] = <<>>

\* C2: in a broadcast of either kind no session is written to more than
\* once, only sessions registered when the list was taken are written to, a
\* failed send leaves every other session of the list still to be written
\* to, at the end of the call every session of the list was written to
\* exactly once, and the call never ends with an exception.
C2_BroadcastIsolatesFailures ==
    \A b \in Broadcasts :
        /\ bresult[b] # "raised"
        /\ \A s \in Sessions : battempts[b][s] <= 1
        /\ \A s \in Sessions : battempts[b][s] = 1 => s \in bsnapAll[b]
        /\ bfailed[b] \subseteq {s \in Sessions : battempts[b][s] = 1}
        /\ bpc[b] = "iter" =>
              Pending(b) = {s \in bsnapAll[b] : battempts[b][s] = 0}
        /\ Finishing(b) => \A s \in bsnapAll[b] : battempts[b][s] = 1

\* C2 witness: a speaker-audio broadcast to two sessions whose send to the
\* first session failed has delivered the frame to the second session and
\* is about to return.
C2_Witness ==
    \E b \in Broadcasts :
        /\ Finishing(b)
        /\ bpayload[b].type = "pcm"
        /\ bsnapAll[b] = {1, 2}
        /\ bfailed[b] = {1}
        /\ battempts[b][2] = 1
        /\ Len(wire[2]) > 0
        /\ wire[2][Len(wire[2])] = bpayload[b]

\* The tasks suspended on the registry lock.
WaitsForRegistry(t) == \E i \in DOMAIN clients_lock.waiters : clients_lock.waiters[i] = t

\* C3 as stated: while a broadcast's send to one session is pending, no
\* session that is being accepted or removed waits for that broadcast.
C3_PendingSendBlocksNoSession ==
    \A b \in Broadcasts :
        bpc[b] = "send" =>
            \A s \in Sessions :
                spc[s] \in {"add", "remove"} => ~WaitsForRegistry(SessTask(s))

\* C4: on every connection at most one write is in flight, and the task
\* whose write is in flight holds the session's lock.
C4_OneWriteInFlight ==
    \A s \in Sessions :
        /\ Cardinality(writing[s]) <= 1
        /\ \A t \in writing[s] : lock[s].holder = t

\* C4 witness: the pong reply of a session is in flight while a broadcast
\* to the same session waits for the session's lock.
C4_Witness ==
    \E s \in Sessions, b \in Broadcasts :
        /\ spc[s] = "pong_send"
        /\ writing[s] = {SessTask(s)}
        /\ bpc[b] = "slock"
        /\ Head(bsnap[b]) = s
        /\ lock[s].waiters = <<BTask(b)>>

\* C5: a binary message is handed to the microphone handler only if the
\* session's own streaming flag was set when the message was processed, and
\* while the handler runs for a session that session's flag is set.
C5_ChunkHandedOnlyWhileStreaming ==
    \A s \in Sessions :
        /\ lastChunk[s].handed => lastChunk[s].streaming
        /\ spc[s] = "mic" => (streaming[s] /\ lastChunk[s].handed)

\* C5 witness: a chunk of session 1 is with the handler while the last
\* chunk of session 2, whose flag is not set, was dropped.
C5_Witness ==
    /\ spc[1] = "mic"
    /\ streaming[1]
    /\ lastChunk[2].seen
    /\ ~lastChunk[2].streaming
    /\ ~lastChunk[2].handed
    /\ spc[2] = "recv"

\* The session is in its receive loop.
InReceiveLoop(s) == spc[s] \in {"recv", "mic", "pong", "pong_send"}

\* C6: as long as no device state was published since a session was
\* accepted, every config and device_state message the session got carries
\* the state published last; and a session in its receive loop has got the
\* config message first and a device_state message after it.
C6_LateJoinerGetsLastState ==
    \A s \in Sessions :
        /\ fresh[s] =>
              \A i \in DOMAIN wire[s] :
                  wire[s][i].type \in {"config", "device_state"}
                      => wire[s][i].val = lastPublished
        /\ InReceiveLoop(s) =>
              /\ Len(wire[s]) >= 2
              /\ wire[s][1].type = "config"
              /\ \E i \in 2..Len(wire[s]) : wire[s][i].type = "device_state"

\* C6 witness: session 2 was accepted after SPEAKING was published and the
\* broadcast had returned; it got SPEAKING in both handshake messages and
\* is in its receive loop.
C6_Witness ==
    /\ bpc[1] = "done"
    /\ bpc[2] = "new"
    /\ lastPublished = "speaking"
    /\ fresh[2]
    /\ spc[2] = "recv"
    /\ wire[2] = <<Msg("config", "speaking"), Msg("device_state", "speaking")>>

\* C9 as stated: no textual payload ends the receive loop of a session.
C9_TextNeverEndsSession ==
    \A s \in Sessions : endedBy[s] # "text"

\* C10: a frame the decoder fails on ends its call at once, without an
\* exception and without a broadcast; a frame that decodes is broadcast as
\* speaker audio, whatever happened to the frames before it, and at the end
\* of the call every session of the list was written to.
C10_DecodeFailureConfined ==
    \A b \in Broadcasts :
        /\ bdecode[b] = "raise" =>
              /\ bpc[b] = "done"
              /\ bresult[b] = "returned"
              /\ bpayload[b] = NoMsg
              /\ \A s \in Sessions : battempts[b][s] = 0
        /\ (bdecode[b] = "pcm" /\ bpc[b] # "done") =>
              /\ bpayload[b] = Msg("pcm", "pcm")
              /\ bresult[b] = "none"
        /\ (bdecode[b] = "pcm" /\ Finishing(b)) =>
              \A s \in bsnapAll[b] : battempts[b][s] = 1
        /\ (bdecode[b] = "pcm" /\ bpc[b] = "done") => bresult[b] = "returned"

\* C10 witness: the decoder failed on the first frame, and the second frame
\* was decoded and delivered to a session.
C10_Witness ==
    /\ bdecode[1] = "raise"
    /\ bdecode[2] = "pcm"
    /\ Finishing(2)
    /\ \E s \in bsnapAll[2] :
          /\ Len(wire[s]) > 0
          /\ wire[s][Len(wire[s])] = Msg("pcm", "pcm")

\* The session task has left its loop (or its handshake) for good.
Terminated(s) == spc[s] \in {"remove", "done"}

\* C11 as stated: every session task that terminates eventually has its
\* entry removed from the registry.
C11_TerminatedSessionRemoved ==
    \A s \in Sessions : (spc[s] = "remove") ~> (spc[s] = "done")

\* The sessions in the registry.
Registered == Range(clients)

\* C12: a step in which a session task terminates or is removed leaves
\* the registry membership, the streaming flag and the lock of every other
\* session and the three recorded fields as they were, the removal deletes
\* the session's own entry, and deleting a session that is not registered
\* gives the registry back unchanged.
C12_RemovalIsLocal ==
    [][\A s \in Sessions :
          (spc'[s] # spc[s] /\ Terminated(s)')  =>
              /\ \A x \in Sessions \ {s} :
                    /\ (x \in Registered') <=> (x \in Registered)
                    /\ streaming'[x] = streaming[x]
                    /\ lock'[x] = lock[x]
              /\ spc'[s] = "done" => s \notin Registered'
              /\ spc'[s] = "remove" => clients' = clients
              /\ regVars' = regVars
              /\ \A x \in Sessions \ Registered' :
                    without_client(clients', x) = clients']_vars

\* C12 witness: session 1 was dropped after a transport error or a
\* disconnect and is out of the registry, while session 2 is still
\* registered, streaming and in its receive loop.
C12_Witness ==
    /\ spc[1] = "done"
    /\ endedBy[1] = "closed"
    /\ clients = <<2>>
    /\ streaming[2]
    /\ spc[2] = "recv"

\* C13: whenever a call of _on_microphone_bytes that has taken a chunk
\* returns, also while other callers are suspended inside the slicing loop,
\* fewer than frame_bytes bytes are in the buffer.
C13_BufferBelowFrameAtReturn ==
    /\ [](lastReturn.len < frame_bytes)
    /\ [][\A c \in Callers :
             (mpc[c] # "idle" /\ mpc'[c] = "idle") =>
                 (Len(buffer') < frame_bytes /\ lastReturn'.by = c)]_vars

\* C13 witness: caller 1 returned while caller 2 was suspended inside the
\* slicing loop, leaving one byte in the buffer.
C13_Witness ==
    /\ lastReturn.by = 1
    /\ lastReturn.during = {2}
    /\ lastReturn.len = 1
    /\ Len(received) > frame_bytes

\* The bytes given to protocol.send_audio, in the order of the calls.
SentBytes == Flatten(upstream)

\* C14 as stated: for every caller, its bytes reach upstream in the order
\* in which they arrived.
C14_PerSessionOrderUpstream ==
    \A c \in Callers :
        \A i, j \in DOMAIN SentBytes :
            (i < j /\ owner[SentBytes[i]] = c /\ owner[SentBytes[j]] = c)
                => SentBytes[i] < SentBytes[j]

\* C15: for the frame a caller is forwarding, a channel that reported open
\* means no reconnect, a channel that did not means exactly one, and after a
\* reconnect that failed or raised the frame is dropped: it is not encoded,
\* not sent, and in neither the buffer nor the upstream sequence.
C15_OneReconnectThenDrop ==
    \A c \in Callers :
        /\ cur[c].conn <= 1
        /\ cur[c].chanAtEntry = "open" => cur[c].conn = 0
        /\ cur[c].chanAtEntry = "closed" => cur[c].conn = 1
        /\ cur[c].connFailed =>
              /\ cur[c].done
              /\ mpc[c] = "loop"
              /\ cur[c].enc = 0
              /\ cur[c].snd = 0
              /\ cur[c].frame \notin Range(upstream)
              /\ Range(cur[c].frame) \cap Range(buffer) = {}

\* C15 witness: with the device LISTENING and the channel closed, the one
\* reconnect made for a frame failed and the frame was dropped, while bytes
\* that arrived later wait in the buffer.
C15_Witness ==
    \E c \in Callers :
        /\ cur[c].connFailed
        /\ cur[c].conn = 1
        /\ cur[c].encWill = "data"
        /\ device_state = "listening"
        /\ ~aborted
        /\ buffer # <<>>

\* The callers whose protocol.send_audio call is in flight.
Sending == {c \in Callers : mpc[c] = "sending"}

\* C16: at most one send_audio call is in flight, and the caller whose call
\* is in flight holds the send lock.
C16_OneUpstreamSendInFlight ==
    /\ Cardinality(Sending) <= 1
    /\ \A c \in Sending : send_lock.holder = MicTask(c)

\* C16 witness: the send of caller 1 is in flight while caller 2, with an
\* encoded frame of its own, waits for the send lock.
C16_Witness ==
    /\ mpc[1] = "sending"
    /\ mpc[2] = "send"
    /\ cur[2].enc = 1
    /\ send_lock.waiters = <<MicTask(2)>>

\* The sessions a broadcast call has started a send to.
Attempted(b) == {s \in Sessions : battempts[b][s] = 1}

\* The call is inside its fan-out.
InFanOut(b) == bpc[b] \in {"iter", "slock", "send"}

\* C17: during the fan-out the broadcast holds the registry lock and the
\* registry is what it was when the list was taken; the sessions written to
\* and those still in the list are together exactly that membership, none
\* twice; at the end of the call exactly the sessions of that membership
\* were written to; and the call does not end with an error.
C17_BroadcastUsesSnapshot ==
    \A b \in Broadcasts :
        /\ InFanOut(b) =>
              /\ clients_lock.holder = BTask(b)
              /\ Registered = bsnapAll[b]
              /\ Attempted(b) \cup Pending(b) = bsnapAll[b]
        /\ \A s \in Sessions : battempts[b][s] \in {0, 1}
        /\ Finishing(b) => Attempted(b) = bsnapAll[b]
        /\ bresult[b] \in {"none", "returned"}

\* C17 witness: a broadcast that found only session 1 registered is sending
\* to it while session 2, accepted meanwhile, waits for the registry lock.
C17_Witness ==
    \E b \in Broadcasts :
        /\ bpc[b] = "send"
        /\ bsnapAll[b] = {1}
        /\ spc[2] = "add"
        /\ WaitsForRegistry(SessTask(2))

\* C18: the status get_status returns has connected set exactly when the
\* registry is not empty and microphoneStreaming set exactly when a
\* registered session is streaming, both as of the moment the list is taken;
\* so a returned status never has microphoneStreaming without connected.
C18_StatusReflectsRegistry ==
    /\ [](status.microphoneStreaming => status.connected)
    /\ [][(gpc = "lock" /\ gpc' = "returned") =>
             /\ status'.returned
             /\ status'.connected <=> (Registered # {})
             /\ status'.microphoneStreaming <=>
                    (\E s \in Registered : streaming[s])]_vars

\* C18 witness: a status was returned with connected set and
\* microphoneStreaming not set while session 2 is registered and not
\* streaming and session 1, whose flag is still set, is gone.
C18_Witness ==
    /\ status.returned
    /\ status.connected
    /\ ~status.microphoneStreaming
    /\ spc[1] = "done"
    /\ streaming[1]
    /\ clients = <<2>>
    /\ ~streaming[2]

\* C19: the recorded microphone time is the clock at the last accepted
\* microphone frame and the recorded speaker time the clock at the last
\* speaker broadcast; a status query reads the clock and both times when it
\* is made, and the status it returns has microphoneActive set exactly when
\* a frame was accepted less than 2 seconds before the query, speakerActive
\* exactly when speaker audio was broadcast less than 2 seconds before it.
C19_ActiveWithinTwoSeconds ==
    /\ [](status.returned =>
            /\ status.microphoneActive <=>
                   (query.micAt # 0 /\ query.at - query.micAt < 2)
            /\ status.speakerActive <=>
                   (query.spkAt # 0 /\ query.at - query.spkAt < 2))
    /\ [][(gpc = "idle" /\ gpc' = "lock") =>
             query' = [at |-> now, micAt |-> last_microphone_at,
                       spkAt |-> last_speaker_at]]_vars
    /\ [][last_microphone_at' # last_microphone_at =>
             /\ last_microphone_at' = now
             /\ \E s \in Sessions :
                   /\ spc[s] = "recv" /\ spc'[s] = "mic"
                   /\ streaming[s]]_vars
    /\ [][(\E s \in Sessions : spc[s] = "recv" /\ spc'[s] = "mic") =>
             last_microphone_at' = now]_vars
    /\ [][last_speaker_at' # last_speaker_at =>
             /\ last_speaker_at' = now
             /\ \E b \in Broadcasts :
                   /\ bpc[b] = "new" /\ bpc'[b] = "lock"
                   /\ bpayload'[b] = Msg("pcm", "pcm")]_vars
    /\ [][(\E b \in Broadcasts :
               /\ bpc[b] = "new" /\ bpc'[b] = "lock"
               /\ bpayload'[b] = Msg("pcm", "pcm")) =>
             last_speaker_at' = now]_vars

\* C19 witness: a status was returned to a query made 1 second after the
\* last accepted microphone frame and 2 seconds after the last speaker
\* broadcast: microphoneActive is set and speakerActive is not.
C19_Witness ==
    /\ status.returned
    /\ query.micAt # 0
    /\ query.at - query.micAt = 1
    /\ status.microphoneActive
    /\ query.spkAt # 0
    /\ query.at - query.spkAt = 2
    /\ ~status.speakerActive

\* The pong messages among the messages delivered to session s.
Pongs(s) == Len(SelectSeq(wire[s], LAMBDA m : m = Msg("pong", "")))

\* Session s has taken a ping and its pong is not yet written.
PongInHand(s) == spc[s] \in {"pong", "pong_send"}

\* C20: a session that is back in its receive loop has been sent exactly
\* one pong for every ping it received, and one whose pong is in hand one
\* less; a pong is written only by the session that received the ping, on
\* its own connection, and neither taking the ping nor writing the pong
\* changes a streaming flag, the registry or its recorded fields, or what
\* is delivered to another session.
C20_OnePongPerPingSameSession ==
    /\ [](\A s \in Sessions :
            /\ spc[s] = "recv" => Pongs(s) = npong[s]
            /\ PongInHand(s) =>
                   /\ Pongs(s) = npong[s] - 1
                   /\ slocal[s] = Msg("pong", ""))
    /\ [][\A s \in Sessions :
             wire'[s] # wire[s] /\ Pongs(s)' > Pongs(s) =>
                /\ spc[s] = "pong_send" /\ spc'[s] = "recv"
                /\ wire'[s] = Append(wire[s], Msg("pong", ""))
                /\ \A x \in Sessions \ {s} : wire'[x] = wire[x]]_vars
    /\ [][\A s \in Sessions :
             (\/ spc[s] = "recv" /\ spc'[s] = "pong"
              \/ spc[s] = "pong" /\ spc'[s] = "pong_send"
              \/ spc[s] = "pong_send" /\ spc'[s] # "pong_send") =>
                /\ \A x \in Sessions \ {s} : wire'[x] = wire[x]
                /\ spc'[s] = "recv" <=>
                       wire'[s] = Append(wire[s], Msg("pong", ""))
                /\ spc'[s] # "recv" => wire'[s] = wire[s]
                /\ streaming' = streaming
                /\ clients' = clients
                /\ last_device_state' = last_device_state
                /\ last_microphone_at' = last_microphone_at
                /\ last_speaker_at' = last_speaker_at]_vars

\* C20 witness: both sessions are in their receive loops; session 2 has
\* received a ping and has been sent its pong, and session 1, which has
\* its handshake messages, has been sent none.
C20_Witness ==
    /\ spc[1] = "recv" /\ spc[2] = "recv"
    /\ npong[2] = 1 /\ Pongs(2) = 1
    /\ npong[1] = 0 /\ Pongs(1) = 0
    /\ wire[1] # <<>>

\* Broadcast call b starts in this step and publishes a device state.
StartsDeviceState(b) ==
    /\ bpc[b] = "new"
    /\ bpc'[b] = "lock"
    /\ bpayload'[b].type = "device_state"

\* C21: the recorded device state is idle at first; it changes only in a
\* step in which a device-state broadcast starts, every such step sets it to
\* the state of that call whoever is registered and whatever the sends do,
\* and it is always the state of the call started last.
C21_LastDeviceStateLastWriteWins ==
    /\ last_device_state = "idle"
    /\ [](last_device_state = lastPublished)
    /\ [][last_device_state' # last_device_state =>
             \E b \in Broadcasts : StartsDeviceState(b)]_vars
    /\ [][\A b \in Broadcasts :
             StartsDeviceState(b) =>
                 last_device_state' = bpayload'[b].val]_vars

\* C21 witness: the first call, which published SPEAKING, is still sending
\* to session 1 when the second call, which publishes IDLE, starts and
\* waits for the registry lock: the recorded state is IDLE.
C21_Witness ==
    /\ clients = <<1>>
    /\ bpc[1] = "send"
    /\ bpayload[1] = Msg("device_state", "speaking")
    /\ bpc[2] = "lock"
    /\ bpayload[2] = Msg("device_state", "idle")
    /\ clients_lock.holder = BTask(1)
    /\ last_device_state = "idle"

\* Broadcast call b delivers its message to session s in this step.
Delivers(b, s) ==
    /\ bpc[b] = "send"
    /\ bpc'[b] = "iter"
    /\ Head(bsnap[b]) = s
    /\ wire'[s] = Append(wire[s], bpayload[b])

\* C22: broadcast calls enter their fan-out in the order in which they
\* started (calls are numbered in that order), one at a time; so when a
\* call delivers its message to a session, every call that started before
\* it has returned and no call that started after it is in its fan-out.
C22_BroadcastOrderPerSession ==
    /\ [](\A a, b \in Broadcasts :
            (a < b /\ InFanOut(b)) => bpc[a] = "done")
    /\ [][\A b \in Broadcasts, s \in Sessions :
             Delivers(b, s) =>
                /\ \A a \in Broadcasts : a < b => bpc[a] = "done"
                /\ \A c \in Broadcasts : c > b => ~InFanOut(c)]_vars

\* C22 witness: the first call has delivered SPEAKING to session 1 and
\* returned; the second call, a speaker frame, is sending to session 1 and
\* the third call, started meanwhile, waits for the registry lock.
C22_Witness ==
    /\ spc[1] = "recv"
    /\ bpc[1] = "done"
    /\ Len(wire[1]) >= 3
    /\ wire[1][Len(wire[1])] = Msg("device_state", "speaking")
    /\ bpc[2] = "send"
    /\ Head(bsnap[2]) = 1
    /\ bpayload[2] = Msg("pcm", "pcm")
    /\ bpc[3] = "lock"
    /\ WaitsForRegistry(BTask(3))

\* Session s takes a binary message in this step (a message that changes
\* nothing at all is a stuttering step).
TakesChunk(s) ==
    \/ [lastChunk'[s] EXCEPT !.outcome = "none"]
           # [lastChunk[s] EXCEPT !.outcome = "none"]
    \/ (spc[s] = "recv" /\ spc'[s] = "mic")

\* C23: the slot holds what it was given last: the plugin's setup puts the
\* plugin's handler there whatever was there before and its shutdown
\* empties it; between the two a handler is registered; a chunk that is
\* accepted goes to the one handler in the slot at that moment; and with an
\* empty slot a chunk is dropped and the recorded microphone time stays.
C23_SingleHandlerSlot ==
    /\ []((app /\ ~stopped) => microphone_handler # "none")
    /\ [][(~app /\ app') => microphone_handler' = "plugin"]_vars
    /\ [][(~stopped /\ stopped') => microphone_handler' = "none"]_vars
    /\ [][\A s \in Sessions :
             TakesChunk(s) =>
                /\ microphone_handler' = microphone_handler
                /\ lastChunk'[s].handed <=> (spc'[s] = "mic")
                /\ lastChunk'[s].handed =>
                       /\ microphone_handler # "none"
                       /\ lastChunk'[s].to = microphone_handler
                /\ microphone_handler = "none" =>
                       /\ ~lastChunk'[s].handed
                       /\ spc'[s] = "recv"
                       /\ last_microphone_at' = last_microphone_at]_vars

\* C23 witness: a chunk of session 2 went to the plugin's handler; after
\* the shutdown, at a later second, a chunk of session 1, which is
\* streaming, was dropped and the recorded time stayed.
C23_Witness ==
    /\ lastChunk[2].handed
    /\ lastChunk[2].to = "plugin"
    /\ stopped
    /\ microphone_handler = "none"
    /\ lastChunk[1].seen
    /\ lastChunk[1].streaming
    /\ ~lastChunk[1].handed
    /\ now > last_microphone_at
    /\ last_microphone_at > 0

\* The encoder raised or returned nothing for the frame caller c forwards.
EncodeFailed(c) ==
    /\ cur[c].gate # NoGate
    /\ GatePermits(cur[c].gate)
    /\ cur[c].encWill \in {"empty", "raise"}

\* C24: a frame for which encode() raised or returned nothing was encoded
\* once and is not sent, and the caller is back in the slicing loop; the
\* step in which the encoder fails, and the step in which a send ends
\* (well or not), leave the buffer, the encoder and the frames sent so far
\* as they were and keep no lock; and a frame for which encode() returned
\* data is sent once, whatever became of the frames before it.
C24_CodecErrorConfined ==
    /\ [](\A c \in Callers :
            /\ EncodeFailed(c) =>
                  /\ cur[c].done
                  /\ mpc[c] = "loop"
                  /\ cur[c].enc = 1
                  /\ cur[c].snd = 0
                  /\ cur[c].frame \notin Range(upstream)
            /\ (cur[c].done /\ cur[c].encWill = "data") =>
                  /\ cur[c].enc = 1
                  /\ cur[c].snd = 1
                  /\ cur[c].frame \in Range(upstream))
    /\ [][\A c \in Callers :
             (mpc[c] \in {"gate", "sending"} /\ mpc'[c] = "loop") =>
                /\ buffer' = buffer
                /\ encoder' = encoder
                /\ upstream' = upstream
                /\ send_lock'.holder # MicTask(c)
                /\ running' = MicTask(c)]_vars

\* C24 witness: of the two frames of the one chunk handed in so far, the
\* encoder failed on the first, which was not sent, and the second was
\* encoded and sent; the caller is back in the loop.
C24_Witness ==
    /\ lastReturn = NoReturn
    /\ mpc[1] = "loop"
    /\ mpc[2] = "idle"
    /\ Len(frames) = 2
    /\ upstream = <<frames[2]>>
    /\ cur[1].frame = frames[2]
    /\ cur[1].done
    /\ cur[1].snd = 1

\* The binary messages among the messages delivered to session s.
PcmMessages(s) == SelectSeq(wire[s], LAMBDA m : m.type = "pcm")

\* The inbound frames that decoded to PCM.
DecodedFrames == {b \in Broadcasts : bdecode[b] \in DecodedPcm}

\* C25: the call made for an inbound frame that decoded to PCM broadcasts
\* that PCM and nothing else; it writes to a session at most once, and at
\* its end to every session of its list once; what a delivery adds to a
\* session is the one message that is the frame's PCM; a frame that did not
\* decode to PCM is not broadcast; and a session has never more binary
\* messages than frames were decoded.
C25_OneMessagePerDecodedFrame ==
    /\ [](\A b \in Broadcasts :
            /\ (b \in DecodedFrames /\ bpc[b] # "done") =>
                  bpayload[b] = Msg("pcm", bdecode[b])
            /\ b \notin DecodedFrames => ~InFanOut(b)
            /\ \A s \in Sessions : battempts[b][s] <= 1
            /\ Finishing(b) => \A s \in bsnapAll[b] : battempts[b][s] = 1)
    /\ [](\A s \in Sessions :
            Len(PcmMessages(s)) <= Cardinality(DecodedFrames))
    /\ [][\A s \in Sessions :
             wire'[s] # wire[s] /\ Len(PcmMessages(s)') > Len(PcmMessages(s)) =>
                \E b \in DecodedFrames :
                    /\ Delivers(b, s)
                    /\ wire'[s] = Append(wire[s], Msg("pcm", bdecode[b]))]_vars

\* C25 witness: two frames were decoded, to different PCM; both sessions
\* have been sent the first and then the second, one message each.
C25_Witness ==
    /\ bdecode[1] = "pcm2"
    /\ bdecode[2] = "pcm"
    /\ Finishing(2)
    /\ \A s \in Sessions :
          PcmMessages(s) = <<Msg("pcm", "pcm2"), Msg("pcm", "pcm")>>

\* C26: a session's streaming flag is the truth value of the active field
\* of the last mic message that session received, and false before the
\* first; a step that changes a flag changes the flag of one session, which
\* is in its receive loop and stays there, and is no step of a broadcast or
\* a status query, takes no ping and no binary message and writes nothing
\* to any session.
C26_StreamingFlagSetByOwnMicMessage ==
    /\ [](\A s \in Sessions :
            /\ streaming[s] <=> (lastMic[s] = "True")
            /\ spc[s] \in {"new", "add"} => ~streaming[s])
    /\ [][\A s \in Sessions :
             streaming'[s] # streaming[s] =>
                /\ spc[s] = "recv" /\ spc' = spc
                /\ lastMic'[s] \in {"True", "False"}
                /\ \A x \in Sessions \ {s} : streaming'[x] = streaming[x]
                /\ bpc' = bpc
                /\ gpc' = gpc
                /\ npong' = npong
                /\ lastChunk' = lastChunk
                /\ wire' = wire
                /\ writing' = writing]_vars

\* C26 witness: session 1 switched its microphone on and off again and
\* session 2 switched its own on; since then session 1 has pinged, a
\* broadcast has written to both and a status reports streaming.
C26_Witness ==
    /\ lastMic[1] = "False" /\ ~streaming[1]
    /\ lastMic[2] = "True" /\ streaming[2]
    /\ npong[1] = 1
    /\ spc[1] = "recv" /\ spc[2] = "recv"
    /\ bpc[1] = "done"
    /\ Len(wire[2]) = 3
    /\ lastChunk[1].seen
    /\ status.returned
    /\ status.microphoneStreaming

\* The task of session s is between its registration and its removal.
Alive(s) == spc[s] \notin {"new", "add", "done"}

\* C27: a session is in the registry from its registration until its own
\* task removes it, after its receive loop (or its handshake) has ended,
\* whatever the broadcasts did meanwhile; a step of a broadcast, a failed
\* send included, leaves the registry as it was; a broadcast that takes its
\* list takes every session registered then; and a status that is returned
\* while a session is registered reports connected.
C27_BroadcastKeepsMembership ==
    /\ [](\A s \in Sessions : Alive(s) <=> s \in Registered)
    /\ [][\A s \in Sessions :
             (s \in Registered /\ s \notin Registered') =>
                /\ spc[s] = "remove" /\ spc'[s] = "done"
                /\ endedBy[s] # "none"
                /\ bpc' = bpc]_vars
    /\ [][bpc' # bpc \/ bfailed' # bfailed => clients' = clients]_vars
    /\ [][\A b \in Broadcasts :
             (bpc[b] = "lock" /\ bpc'[b] = "iter") =>
                 Range(bsnap'[b]) = {s \in Sessions : Alive(s)}]_vars
    /\ [][(gpc = "lock" /\ gpc' = "returned") =>
             (status'.connected <=> \E s \in Sessions : Alive(s))]_vars

\* C27 witness: both sessions were registered when the first call made its
\* fan-out; its send to session 1 failed (session 2 has its message,
\* session 1 has not).  The call has returned, session 1 is still
\* registered and in its receive loop, the status returned since reports
\* connected, and the second call has session 1 in its list.
C27_Witness ==
    /\ clients = <<1, 2>>
    /\ spc[1] = "recv" /\ spc[2] = "recv"
    /\ bpc[1] = "done"
    /\ Len(wire[1]) = 2
    /\ Len(wire[2]) = 3
    /\ bpc[2] = "iter"
    /\ bsnap[2] = <<1, 2>>
    /\ status.returned
    /\ status.connected

\* The config messages among the messages delivered to session s.
Configs(s) == SelectSeq(wire[s], LAMBDA m : m.type = "config")

\* The config message of session s has not been written yet.
BeforeConfig(s) == spc[s] \in {"new", "add", "cfg", "cfg_send"}

\* C28: while the config message of a session has not been written, no
\* broadcast writes to the session and nothing has been delivered to it,
\* also when the session is already in the registry and in the list of a
\* broadcast; a session gets at most one config message, as its first
\* message; and a session whose first message is another one is a session
\* whose handshake failed.
C28_ConfigFirstAndOnce ==
    \A s \in Sessions :
        /\ BeforeConfig(s) =>
              /\ wire[s] = <<>>
              /\ writing[s] \subseteq {SessTask(s)}
        /\ Len(Configs(s)) <= 1
        /\ \A i \in DOMAIN wire[s] : wire[s][i].type = "config" => i = 1
        /\ (wire[s] # <<>> /\ wire[s][1].type # "config") =>
              endedBy[s] = "closed"
        /\ InReceiveLoop(s) => Len(Configs(s)) = 1

\* C28 witness: session 1 is in the registry and its config message is
\* being written; a broadcast that found it registered waits for the
\* session's lock.
C28_Witness ==
    \E b \in Broadcasts :
        /\ clients = <<1>>
        /\ spc[1] = "cfg_send"
        /\ writing[1] = {SessTask(1)}
        /\ wire[1] = <<>>
        /\ bpc[b] = "slock"
        /\ bsnapAll[b] = {1}
        /\ lock[1].waiters = <<BTask(b)>>

\* The device_state messages among the messages delivered to session s.
DeviceStateMessages(s) == SelectSeq(wire[s], LAMBDA m : m.type = "device_state")

\* No broadcast_device_state call and no handshake is under way.
Quiescent ==
    /\ \A b \in Broadcasts : bpc[b] \in {"new", "done"}
    /\ \A s \in Sessions : spc[s] \notin {"add", "cfg", "cfg_send", "ds", "ds_send"}

\* C29: when no broadcast_device_state call and no handshake is under way
\* and no send has failed, the last device_state message delivered to each
\* registered session carries last_device_state.
C29_QuiescentSessionsHaveLatestState ==
    Quiescent =>
        \A s \in Registered :
            /\ DeviceStateMessages(s) # <<>>
            /\ DeviceStateMessages(s)[Len(DeviceStateMessages(s))].val = last_device_state

\* C29 witness: two broadcasts were called while session 1 wrote its config
\* message; the first one's message went between the two messages of the
\* handshake, the second one's after them, and all is quiescent.
C29_Witness ==
    /\ Quiescent
    /\ 1 \in Registered
    /\ last_device_state = "idle"
    /\ wire[1] = <<Msg("config", "idle"), Msg("device_state", "speaking"),
                   Msg("device_state", "idle"), Msg("device_state", "idle")>>
    /\ bpc[1] = "done" /\ bpc[2] = "done" /\ bpc[3] = "new"

\* Task t is in the queue of lock l.
WaitsFor(t, l) == \E i \in DOMAIN l.waiters : l.waiters[i] = t

\* The tasks that take locks.
LockTasks ==
    {SessTask(s) : s \in Sessions} \cup {BTask(b) : b \in Broadcasts}
        \cup {MicTask(c) : c \in Callers} \cup {StatusTask}

\* Task t holds or requests a lock other than the send lock.
UsesBridgeLock(t) ==
    \/ clients_lock.holder = t \/ WaitsFor(t, clients_lock)
    \/ \E s \in Sessions : lock[s].holder = t \/ WaitsFor(t, lock[s])

\* The order in which the locks are taken: a task that holds a session's
\* lock requests neither the registry lock nor another session's lock nor
\* the send lock, and holds no second session's lock; a task that requests
\* the registry lock holds no lock; a task that holds or requests the send
\* lock uses no other lock.
LockOrder ==
    \A t \in LockTasks :
        /\ \A s \in Sessions : lock[s].holder = t =>
              /\ ~WaitsFor(t, clients_lock)
              /\ ~WaitsFor(t, send_lock)
              /\ \A x \in Sessions \ {s} :
                    lock[x].holder # t /\ ~WaitsFor(t, lock[x])
        /\ WaitsFor(t, clients_lock) =>
              /\ send_lock.holder # t
              /\ \A s \in Sessions : lock[s].holder # t
        /\ (send_lock.holder = t \/ WaitsFor(t, send_lock)) => ~UsesBridgeLock(t)

\* C30: the locks are always taken in the order registry lock, session
\* lock, with the send lock on its own; and when the event loop is fair and
\* every send that was started ends, every broadcast that was called
\* returns, every accepted connection gets to its receive loop or is taken
\* down and removed, every removal that was started ends (a session that
\* is being removed never gets back to the receive loop), every get_status
\* call returns and every forwarded frame leaves the send lock.
C30_NoDeadlockOnLocks ==
    /\ []LockOrder
    /\ [][\A s \in Sessions :
             spc[s] = "remove" => spc'[s] \in {"remove", "done"}]_vars
    /\ \A b \in OneCall : (bpc[b] # "new") ~> (bpc[b] = "done")
    /\ \A s \in Sessions :
          (spc[s] \in {"add", "remove"}) ~> (spc[s] \in {"recv", "done"})
    /\ (gpc = "lock") ~> (gpc = "returned")
    /\ \A c \in Callers : (mpc[c] = "send") ~> (mpc[c] \in {"loop", "idle"})

\* C30 witness: every lock is contended at once.  A broadcast holds the
\* registry lock and waits for the lock of session 1, whose task writes;
\* session 2, whose loop has ended, and a status query wait for the
\* registry lock; one forwarder sends under the send lock and the other
\* one waits for it.
C30_Witness ==
    /\ clients_lock.holder = BTask(1)
    /\ WaitsFor(SessTask(2), clients_lock)
    /\ WaitsFor(StatusTask, clients_lock)
    /\ lock[1].holder = SessTask(1)
    /\ WaitsFor(BTask(1), lock[1])
    /\ spc[2] = "remove"
    /\ send_lock.holder = MicTask(1)
    /\ WaitsFor(MicTask(2), send_lock)

\* The place of frame f among the frames sliced from the buffer (the bytes
\* of the stream are numbered, so no two frames are equal).
SlicePos(f) == CHOOSE i \in DOMAIN frames : frames[i] = f

\* C31 as stated: the frames given to send_audio are in the order in which
\* they were sliced from the buffer.
C31_UpstreamInSliceOrder ==
    \A i, j \in DOMAIN upstream :
        i < j => SlicePos(upstream[i]) < SlicePos(upstream[j])

\* Session s goes from its receive loop into the microphone handler.
EntersHandler(s) == spc[s] = "recv" /\ spc'[s] = "mic"

\* Broadcast call b is made, as a call of on_incoming_audio.
SpeakerCall(b) == bpc[b] = "new" /\ bpc'[b] # "new" /\ bpayload'[b].type # "device_state"

\* C32: the microphone time (one value for all sessions) is set to the
\* clock exactly by a chunk that is not empty, on a session whose flag is
\* set, while the handler slot is filled; it is set on the way into the
\* handler and the handler's return or exception leaves it alone.  The
\* speaker time (one value too) is set to the clock exactly by a call
\* whose audio decodes to something, before the fan-out and so whatever
\* the sessions and the sends; a call with nothing to broadcast ends at
\* once, writes to no session and leaves the time alone.  Neither time
\* moves backwards.
C32_ActivityTimes ==
    /\ [](\A s \in Sessions : lastChunk[s].seen =>
             (lastChunk[s].handed <=>
                  /\ ~lastChunk[s].empty
                  /\ lastChunk[s].streaming
                  /\ lastChunk[s].slot # "none"))
    /\ [][\A s \in Sessions : TakesChunk(s) =>
             /\ spc[s] = "recv"
             /\ lastChunk'[s].handed <=> EntersHandler(s)]_vars
    /\ [][\A s \in Sessions : EntersHandler(s) =>
             /\ last_microphone_at' = now
             /\ lastChunk'[s].handed
             /\ lastChunk'[s].streaming = streaming[s]
             /\ lastChunk'[s].slot = microphone_handler]_vars
    /\ [][last_microphone_at' # last_microphone_at =>
             \E s \in Sessions : EntersHandler(s)]_vars
    /\ [][\A s \in Sessions : (spc[s] = "mic" /\ spc'[s] # "mic") =>
             /\ last_microphone_at' = last_microphone_at
             /\ spc'[s] = "recv"]_vars
    /\ [][\A b \in Broadcasts : SpeakerCall(b) =>
             IF decoder /\ bdecode'[b] \in DecodedPcm
             THEN /\ last_speaker_at' = now
                  /\ bpc'[b] = "lock"
                  /\ bpayload'[b] = Msg("pcm", bdecode'[b])
             ELSE /\ last_speaker_at' = last_speaker_at
                  /\ bpc'[b] = "done"
                  /\ bsnapAll'[b] = {}
                  /\ wire' = wire /\ writing' = writing]_vars
    /\ [][last_speaker_at' # last_speaker_at =>
             \E b \in Broadcasts :
                 SpeakerCall(b) /\ bdecode'[b] \in DecodedPcm]_vars
    /\ [][/\ last_microphone_at' >= last_microphone_at
          /\ last_speaker_at' >= last_speaker_at]_vars

\* C32 witness: at second 3 an empty chunk of session 1, whose flag is
\* set, left the microphone time at second 2, where a chunk of session 2
\* had set it before its handler ended; the speaker time was set at second
\* 3 by a call that found both sessions and whose send to session 1 failed.
C32_Witness ==
    /\ now = 3
    /\ lastChunk[1].seen /\ lastChunk[1].empty /\ lastChunk[1].streaming
    /\ lastChunk[1].slot = "plugin" /\ ~lastChunk[1].handed
    /\ lastChunk[2].handed /\ spc[2] = "recv"
    /\ last_microphone_at = 2
    /\ last_speaker_at = 3
    /\ bpc[1] = "iter" /\ bsnapAll[1] = {1, 2} /\ bfailed[1] = {1}

\* The handler called for session s ends.
LeavesHandler(s) == spc[s] = "mic" /\ spc'[s] # "mic"

\* C33: when the microphone handler ends, by returning or by raising, the
\* session is back in its receive loop; the registry, every streaming flag
\* and what ended any session are as before, and no other session moves.
\* A session whose handler raised is in the receive loop or has left it
\* later for a reason of its own.
C33_HandlerErrorKeepsSession ==
    /\ [][\A s \in Sessions : LeavesHandler(s) =>
             /\ spc'[s] = "recv"
             /\ lastChunk'[s].outcome \in {"returned", "raised"}
             /\ clients' = clients
             /\ streaming' = streaming
             /\ endedBy' = endedBy
             /\ microphone_handler' = microphone_handler
             /\ \A x \in Sessions \ {s} :
                   spc'[x] = spc[x] /\ lastChunk'[x] = lastChunk[x]]_vars
    /\ [](\A s \in Sessions :
             (lastChunk[s].outcome = "raised" /\ endedBy[s] = "none") =>
                 /\ spc[s] = "recv"
                 /\ s \in Registered)

\* C33 witness: the handler raised on a chunk of session 1; the session is
\* registered and in its receive loop, where it has since processed the
\* message that cleared its streaming flag; session 2 is in the handler.
C33_Witness ==
    /\ lastChunk[1].outcome = "raised"
    /\ spc[1] = "recv"
    /\ 1 \in Registered
    /\ lastMic[1] = "False"
    /\ ~streaming[1]
    /\ spc[2] = "mic"

\* C34 as stated: once shutdown has run, nothing more is given to
\* send_audio and the buffer is empty.
C34_NothingSentAfterShutdown ==
    /\ [](stopped => buffer = <<>>)
    /\ [][stopped => upstream' = upstream]_vars

\* ----------------------------------------------------------------- C36
\* C36: a call of ProcessController.start that fails (a child is running,
\* main.py is missing, or the interpreter cannot be spawned) leaves the
\* status as it was before the call, and the status is 'starting' only while
\* a call of start is spawning its child.
FailsStart(i) ==
    /\ startres[i] = "none"
    /\ startres'[i] \in {"conflict", "missing", "nospawn"}
Spawning == \E i \in Starts : startpc[i] \in {"spawn", "connected"}
C36_FailedStartKeepsStatus ==
    /\ [](cstatus.status = "starting" => Spawning)
    /\ [][\A i \in Starts : FailsStart(i) => cstatus' = cstatus]_vars

\* ----------------------------------------------------------------- C35
\* C35: the controller runs at most one child at a time; a call of start
\* made while a child runs fails with a conflict and spawns nothing, a call
\* of stop made while no child runs fails with a conflict, and neither
\* failure changes the status or the process reference.
RunningChildren == {k \in Children : child[k] = "running"}
Spawns(i) == child[i] = "unborn" /\ child'[i] = "running"
StartRuns(i) == startres[i] = "none" /\ startpc[i] = "lock" /\ startpc'[i] # "lock"
StopRuns(j) == stopres[j] = "none" /\ stoppc[j] = "lock" /\ stoppc'[j] # "lock"
C35_OneChildAtATime ==
    /\ [](Cardinality(RunningChildren) <= 1)
    /\ [][\A i \in Starts :
            StartRuns(i) /\ RunningChildren # {}
            => /\ startres'[i] = "conflict"
               /\ ~Spawns(i)
               /\ cstatus' = cstatus
               /\ process' = process]_vars
    /\ [][\A j \in Stops :
            StopRuns(j) /\ RunningChildren = {}
            => /\ stopres'[j] = "conflict"
               /\ cstatus' = cstatus
               /\ process' = process]_vars

\* ----------------------------------------------------------------- C37
\* C37: the status moves only along idle -> starting -> running ->
\* (stopping ->) stopped | failed, and from stopped or failed back to
\* starting; the monitor, once the child has exited, clears the process
\* reference and the pid, stores the return code in exit_code and sets
\* 'stopped' exactly for the return code 0; when stop returns the
\* controller is not running and the status is not 'stopping'.
LifecycleEdges ==
    {<<"idle", "starting">>, <<"starting", "running">>,
     <<"running", "stopping">>, <<"running", "stopped">>,
     <<"running", "failed">>, <<"stopping", "stopped">>,
     <<"stopping", "failed">>, <<"stopped", "starting">>,
     <<"failed", "starting">>}
MonitorEnds(k) == monpc[k] = "lock" /\ monpc'[k] = "done"
StopReturns(j) == stopres[j] = "none" /\ stopres'[j] = "ok"
C37_StatusMovesAlongLifecycle ==
    [][cstatus'.status # cstatus.status
       => <<cstatus.status, cstatus'.status>> \in LifecycleEdges]_vars
C37_MonitorRecordsExit ==
    [][\A k \in Children :
         MonitorEnds(k)
         => /\ process' = NoChild
            /\ cstatus'.pid = NoChild
            /\ cstatus'.exit_code = returncode[monlocal[k].process]
            /\ cstatus'.exit_code # NoCode
            /\ cstatus'.status = "stopped" <=> cstatus'.exit_code = 0
            /\ cstatus'.status = "failed" <=> cstatus'.exit_code # 0]_vars
C37_StopReturnsStopped ==
    [][\A j \in Stops :
         StopReturns(j)
         => ~is_running' /\ cstatus'.status # "stopping"]_vars
C37_StatusLifecycle ==
    /\ C37_StatusMovesAlongLifecycle
    /\ C37_MonitorRecordsExit
    /\ C37_StopReturnsStopped

\* ----------------------------------------------------------------- C38
\* C38: wait_for_display never returns an absent display.  It returns the
\* display at once when one is registered; a waiter that is pending when a
\* display registers comes to an end, with the display that is registered
\* when it wakes; every call ends with a display that was registered, a
\* timeout or the error 'not registered'.  After unregister_display of the
\* current display get_display returns nothing, and a call made while no
\* display is registered waits, and is not woken before a registration.
Calls(w) == wpc[w] = "idle" /\ wpc'[w] # "idle"
Wakes(w) == wpc[w] = "wait" /\ wpc'[w] = "done"
Outcomes == {Returned(d) : d \in registered} \cup {TimedOut, NotRegistered}
Unregisters == display # NoDisplay /\ display' = NoDisplay
C38_WaitReturnsRegisteredDisplay ==
    /\ [](\A w \in Waiters :
            /\ wresult[w].kind = "display" => wresult[w].display # NoDisplay
            /\ wpc[w] = "done" => wresult[w] \in Outcomes)
    /\ [][\A w \in Waiters :
            Calls(w) /\ display # NoDisplay
            => wpc'[w] = "done" /\ wresult'[w] = Returned(display)]_vars
    /\ [][\A w \in Waiters :
            Wakes(w) /\ display # NoDisplay
            => wresult'[w] \in {Returned(display), TimedOut}]_vars
    /\ \A w \in Waiters :
            (wpc[w] = "wait" /\ display # NoDisplay) ~> wpc[w] = "done"
    /\ [][Unregisters => get_display' = NoDisplay]_vars
    /\ [][\A w \in Waiters :
            Calls(w) /\ display = NoDisplay => wpc'[w] = "wait"]_vars
    /\ [][\A w \in Waiters :
            Wakes(w) /\ wlocal[w] = event /\ display = NoDisplay
            => wresult'[w] = TimedOut]_vars
\* The first call waited and was given display 1, which has gone since; the
\* second call waits for the next registration.
C38_Witness ==
    /\ wlocal[1] = 1
    /\ wresult[1] = Returned(1)
    /\ display = NoDisplay
    /\ wpc[2] = "wait"
    /\ wlocal[2] = event


============================================================================
